---------------------------- MODULE Spec2Model ----------------------------
(***************************************************************************)
(* A model of the XCDF expression compiler (src/src/Expression.cc): the    *)
(* tokenizer (ParseSymbols / GetNextSymbol / ParseValue / ParseOperator),  *)
(* the in-place reduction of the symbol list (RecursiveParseExpression     *)
(* and the Replace* passes) and the node dispatch (DoGetNode).             *)
(*                                                                         *)
(* Conventions.                                                            *)
(*  - A std::string is a sequence of one-character strings.  Positions     *)
(*    are 0-based as in the source; At(s, i) reads s[i].                   *)
(*  - size_t and uint64_t values are written by their residue of least     *)
(*    magnitude: npos = size_t(-1) is -1 and the uint64_t 2^64 - k is -k.  *)
(*  - A Symbol is a record with a "type" field (the SymbolType); nodes     *)
(*    carry the operands they were built from, so that the shape of the    *)
(*    compiled tree can be inspected.                                      *)
(***************************************************************************)
EXTENDS Integers, Sequences, FiniteSets, TLC

VARIABLES
    expString_,       \* Expression::expString_, the text being compiled
    f_,               \* the bound XCDFFile: its fields and aliases
    hexTail,          \* the bytes that follow hex[2] in memory up to the first NUL
    pos,              \* ParseSymbols' cursor into expString_
    parsedSymbols_,   \* Expression::parsedSymbols_
    allocatedSymbols_,\* Expression::allocatedSymbols_, in allocation order
    pc,               \* "ParseSymbols", "Parse", "done", "fatal", "trap"; "none": no Expression
    row,              \* the current row of the bound file: field name -> values
    data_,            \* Histogram1D::data_, bin i at index i + 1
    dataW2_,          \* Histogram1D::dataW2_
    underflow_,       \* Histogram1D::underflow_
    underflowW2_,     \* Histogram1D::underflowW2_
    overflow_,        \* Histogram1D::overflow_
    overflowW2_,      \* Histogram1D::overflowW2_
    min_,             \* Histogram1D::min_
    max_,             \* Histogram1D::max_
    rinv_,            \* Histogram1D::rinv_
    value,            \* the first argument of the last call of Fill
    weight            \* the second argument of the last call of Fill

\* the variables of the Expression and of the Histogram1D
expression == <<expString_, f_, hexTail, pos, parsedSymbols_, allocatedSymbols_, pc, row>>
histogram ==
    <<data_, dataW2_, underflow_, underflowW2_, overflow_, overflowW2_, min_, max_, rinv_,
      value, weight>>

vars == <<expression, histogram>>

\* no Histogram1D has been constructed
NoHistogram ==
    /\ data_ = <<>> /\ dataW2_ = <<>>
    /\ underflow_ = <<0, 1>> /\ underflowW2_ = <<0, 1>>
    /\ overflow_ = <<0, 1>> /\ overflowW2_ = <<0, 1>>
    /\ min_ = <<0, 1>> /\ max_ = <<0, 1>> /\ rinv_ = <<0, 1>>
    /\ value = <<0, 1>> /\ weight = <<0, 1>>

----------------------------------------------------------------------------
(* std::string                                                             *)

npos == -1

WhiteSpace == {" ", "\n", "\r", "\t"}
OperatorChars == {",", "/", "*", "%", "^", ")", "(", "=", ">", "<", "&", "|", "!", "~"}
OperatorRunChars == {",", "/", "*", "%", "^", "=", ">", "<", "&", "|", "!", "~"}
SignChars == {"+", "-"}

At(s, i) == s[i + 1]

\* s.substr(start, len)
Substr(s, start, len) ==
    [k \in 1 .. (IF start + len > Len(s) THEN Len(s) - start ELSE len) |-> s[start + k]]

\* s.find_first_of(set, from) and s.find_first_not_of(set, from)
FindFirstOf(s, set, from) ==
    LET hits == {i \in 0 .. Len(s) - 1 : i >= from /\ At(s, i) \in set}
    IN  IF from = npos \/ hits = {} THEN npos
        ELSE CHOOSE i \in hits : \A j \in hits : i <= j

FindFirstNotOf(s, set, from) ==
    LET hits == {i \in 0 .. Len(s) - 1 : i >= from /\ At(s, i) \notin set}
    IN  IF from = npos \/ hits = {} THEN npos
        ELSE CHOOSE i \in hits : \A j \in hits : i <= j

\* s.find_last_of(set, from) and s.find_last_not_of(set, from): a position at
\* or past size(), npos and npos - 1 included, starts at the last character
FindLastOf(s, set, from) ==
    LET top  == IF from < 0 \/ from >= Len(s) THEN Len(s) - 1 ELSE from
        hits == {i \in 0 .. top : At(s, i) \in set}
    IN  IF hits = {} THEN npos
        ELSE CHOOSE i \in hits : \A j \in hits : i >= j

FindLastNotOf(s, set, from) ==
    LET top  == IF from < 0 \/ from >= Len(s) THEN Len(s) - 1 ELSE from
        hits == {i \in 0 .. top : At(s, i) \notin set}
    IN  IF hits = {} THEN npos
        ELSE CHOOSE i \in hits : \A j \in hits : i >= j

\* s.find(needle) != npos
Contains(s, needle) ==
    \E i \in 0 .. Len(s) - Len(needle) : Substr(s, i, Len(needle)) = needle

----------------------------------------------------------------------------
(* Symbols                                                                 *)

NULL == [type |-> "NULL"]

Symbol(t) == [type |-> t]

NodeTypes == {"FLOATING_POINT_NODE", "SIGNED_NODE", "UNSIGNED_NODE"}

UnaryFunctions ==
    {"UNIQUE", "ANY", "ALL", "SUM", "SIN", "COS", "TAN", "ASIN", "ACOS", "ATAN",
     "LOG", "LOG10", "EXP", "ABS", "SQRT", "CEIL", "FLOOR", "ISNAN", "ISINF",
     "SINH", "COSH", "TANH", "INT", "UNSIGNED", "DOUBLE"}
BinaryFunctions == {"FMOD", "POW", "ATAN2", "IN"}
VoidFunctions == {"RAND"}

IsNode(s) == s.type \in NodeTypes
IsUnaryFunction(s) == s.type \in UnaryFunctions
IsBinaryFunction(s) == s.type \in BinaryFunctions
IsVoidFunction(s) == s.type \in VoidFunctions
IsFunction(s) == IsUnaryFunction(s) \/ IsBinaryFunction(s) \/ IsVoidFunction(s)
IsComparison(s) ==
    s.type \in {"GREATER_THAN", "LESS_THAN", "GREATER_THAN_EQUAL", "LESS_THAN_EQUAL"}
IsEquality(s) == s.type \in {"EQUALITY", "INEQUALITY"}

\* new ConstNode<T>(v); a double is the exact ratio num / den
ConstNode(t, v) == [type |-> t, node |-> "Const", val |-> v]
FieldNode(t, name) == [type |-> t, node |-> "Field", name |-> name]
AliasNode(t, name) == [type |-> t, node |-> "Alias", name |-> name]
CounterNode == [type |-> "UNSIGNED_NODE", node |-> "Counter"]
ListSymbol(first, second) == [type |-> "LIST", symbols |-> <<first, second>>]
PushBack(list, s) == [list EXCEPT !.symbols = Append(@, s)]

----------------------------------------------------------------------------
(* Numerical literals: operator>> of a std::stringstream                   *)

DecDigits == <<"0", "1", "2", "3", "4", "5", "6", "7", "8", "9">>
HexLower == <<"a", "b", "c", "d", "e", "f">>
HexUpper == <<"A", "B", "C", "D", "E", "F">>

IndexOf(seq, c) == CHOOSE k \in 1 .. Len(seq) : seq[k] = c
InSeq(seq, c) == \E k \in 1 .. Len(seq) : seq[k] = c

IsDigit(c, base) ==
    InSeq(DecDigits, c) \/ (base = 16 /\ (InSeq(HexLower, c) \/ InSeq(HexUpper, c)))
DigitValue(c) ==
    IF InSeq(DecDigits, c) THEN IndexOf(DecDigits, c) - 1
    ELSE IF InSeq(HexLower, c) THEN IndexOf(HexLower, c) + 9
    ELSE IndexOf(HexUpper, c) + 9

\* the index (1-based) of the first character at or after i that is not a
\* digit of the base
RECURSIVE DigitsEnd(_, _, _)
DigitsEnd(s, i, base) ==
    IF i <= Len(s) /\ IsDigit(s[i], base) THEN DigitsEnd(s, i + 1, base) ELSE i

\* the value of the digits s[i .. j-1]
RECURSIVE DigitsValue(_, _, _, _, _)
DigitsValue(s, i, j, base, acc) ==
    IF i >= j THEN acc ELSE DigitsValue(s, i + 1, j, base, acc * base + DigitValue(s[i]))

RECURSIVE Pow10(_)
Pow10(n) == IF n <= 0 THEN 1 ELSE 10 * Pow10(n - 1)

SkipWs(s, i) ==
    LET rest == {k \in i .. Len(s) : s[k] \notin WhiteSpace}
    IN  IF rest = {} THEN Len(s) + 1 ELSE CHOOSE k \in rest : \A j \in rest : k <= j

\* The result of an extraction: whether failbit was set, the value, and the
\* index (1-based) of the first character not taken
Extracted(val, next) == [fail |-> FALSE, val |-> val, next |-> next]
ExtractFailed(next) == [fail |-> TRUE, val |-> 0, next |-> next]

HasSign(s, i) == i <= Len(s) /\ s[i] \in SignChars
IsNegative(s, i) == i <= Len(s) /\ s[i] = "-"
AfterSign(s, i) == IF HasSign(s, i) THEN i + 1 ELSE i
HasHexPrefix(s, i, base) ==
    base = 16 /\ i + 1 <= Len(s) /\ s[i] = "0" /\ s[i + 1] \in {"x", "X"}
AfterPrefix(s, i, base) == IF HasHexPrefix(s, i, base) THEN i + 2 ELSE i
Negate(neg, mag) == IF neg THEN 0 - mag ELSE mag

\* ss >> out for an integer type under std::dec (base 10) or std::hex (base 16):
\* leading whitespace, a sign, for base 16 a 0x or 0X prefix, then digits.  An
\* unsigned type takes a '-' and negates modulo 2^64, as strtoull does.
IntegerDigits(s, base, neg, first, last) ==
    IF last = first THEN ExtractFailed(last)
    ELSE Extracted(Negate(neg, DigitsValue(s, first, last, base, 0)), last)
IntegerFrom(s, base, neg, first) ==
    IntegerDigits(s, base, neg, first, DigitsEnd(s, first, base))
IntegerSigned(s, base, i0) ==
    IntegerFrom(s, base, IsNegative(s, i0), AfterPrefix(s, AfterSign(s, i0), base))
ExtractInteger(s, base) == IntegerSigned(s, base, SkipWs(s, 1))

\* ss >> out for a double: sign, digits, '.', digits, then e or E with a sign
\* and digits once a digit was seen; the characters taken must all convert.
\* The value is the exact ratio <<num, den>>.
HasDot(s, i) == i <= Len(s) /\ s[i] = "."
AfterDot(s, i) == IF HasDot(s, i) THEN i + 1 ELSE i
HasExponent(s, i) == i <= Len(s) /\ s[i] \in {"e", "E"}
Scaled(m, shift) == IF shift >= 0 THEN <<m * Pow10(shift), 1>> ELSE <<m, Pow10(0 - shift)>>

\* digits s[i1 .. i2-1] '.' s[i3 .. i4-1] 'e' sign s[i6 .. i7-1]
DoubleValue(s, neg, i1, i2, i3, i4, eneg, i6, i7) ==
    Extracted(
        Scaled(Negate(neg, DigitsValue(s, i1, i2, 10, 0) * Pow10(i4 - i3)
                           + DigitsValue(s, i3, i4, 10, 0)),
               Negate(eneg, DigitsValue(s, i6, i7, 10, 0)) - (i4 - i3)),
        i7)
DoubleExponentDigits(s, neg, i1, i2, i3, i4, eneg, i6, i7) ==
    IF i7 = i6 THEN ExtractFailed(i7)
    ELSE DoubleValue(s, neg, i1, i2, i3, i4, eneg, i6, i7)
DoubleExponent(s, neg, i1, i2, i3, i4) ==
    IF i2 = i1 /\ i4 = i3 THEN ExtractFailed(i4)
    ELSE IF HasExponent(s, i4)
    THEN DoubleExponentDigits(s, neg, i1, i2, i3, i4, IsNegative(s, i4 + 1),
                              AfterSign(s, i4 + 1),
                              DigitsEnd(s, AfterSign(s, i4 + 1), 10))
    ELSE DoubleValue(s, neg, i1, i2, i3, i4, FALSE, i4, i4)
DoubleFraction(s, neg, i1, i2) ==
    DoubleExponent(s, neg, i1, i2, AfterDot(s, i2),
                   IF HasDot(s, i2) THEN DigitsEnd(s, i2 + 1, 10) ELSE i2)
DoubleSigned(s, i0) ==
    DoubleFraction(s, IsNegative(s, i0), AfterSign(s, i0), DigitsEnd(s, AfterSign(s, i0), 10))
ExtractDouble(s) == DoubleSigned(s, SkipWs(s, 1))

\* DoConstNode<T>(numerical, manip): NULL when the extraction fails or when
\* unconverted characters are left
ConstOfExtraction(t, numerical, r) ==
    IF r.fail THEN NULL
    ELSE IF SkipWs(numerical, r.next) <= Len(numerical) THEN NULL
    ELSE ConstNode(t, r.val)
DoConstNode(t, numerical, base) ==
    ConstOfExtraction(t, numerical,
                      IF t = "FLOATING_POINT_NODE" THEN ExtractDouble(numerical)
                      ELSE ExtractInteger(numerical, base))

\* The array hex[2] = {'X', 'x'} is passed to find() as a C string without a
\* terminator: the needle is "Xx" followed by whatever bytes lie after the
\* array up to the first NUL (tail).
HexNeedle(tail) == <<"X", "x">> \o tail

\* if (!out) out = ...
IfNull(out, next) == IF out = NULL THEN next ELSE out

ParseNumerical(numerical, tail) ==
    IfNull(IF Contains(numerical, HexNeedle(tail))
           THEN DoConstNode("UNSIGNED_NODE", numerical, 16) ELSE NULL,
           IfNull(DoConstNode("UNSIGNED_NODE", numerical, 10),
                  IfNull(DoConstNode("SIGNED_NODE", numerical, 10),
                         DoConstNode("FLOATING_POINT_NODE", numerical, 10))))

----------------------------------------------------------------------------
(* Value and operator tokens                                               *)

FunctionKeywords ==
   <<
      <<<<"i","n">>, "IN">>,
      <<<<"u","n","i","q","u","e">>, "UNIQUE">>,
      <<<<"a","n","y">>, "ANY">>,
      <<<<"a","l","l">>, "ALL">>,
      <<<<"s","u","m">>, "SUM">>,
      <<<<"s","i","n">>, "SIN">>,
      <<<<"c","o","s">>, "COS">>,
      <<<<"t","a","n">>, "TAN">>,
      <<<<"a","s","i","n">>, "ASIN">>,
      <<<<"a","c","o","s">>, "ACOS">>,
      <<<<"a","t","a","n">>, "ATAN">>,
      <<<<"l","o","g">>, "LOG">>,
      <<<<"l","o","g","1","0">>, "LOG10">>,
      <<<<"e","x","p">>, "EXP">>,
      <<<<"a","b","s">>, "ABS">>,
      <<<<"f","a","b","s">>, "ABS">>,
      <<<<"s","q","r","t">>, "SQRT">>,
      <<<<"c","e","i","l">>, "CEIL">>,
      <<<<"f","l","o","o","r">>, "FLOOR">>,
      <<<<"i","s","n","a","n">>, "ISNAN">>,
      <<<<"i","s","i","n","f">>, "ISINF">>,
      <<<<"s","i","n","h">>, "SINH">>,
      <<<<"c","o","s","h">>, "COSH">>,
      <<<<"t","a","n","h">>, "TANH">>,
      <<<<"r","a","n","d">>, "RAND">>,
      <<<<"f","m","o","d">>, "FMOD">>,
      <<<<"p","o","w">>, "POW">>,
      <<<<"i","n","t">>, "INT">>,
      <<<<"u","n","s","i","g","n","e","d">>, "UNSIGNED">>,
      <<<<"f","l","o","a","t">>, "DOUBLE">>,
      <<<<"d","o","u","b","l","e">>, "DOUBLE">>,
      <<<<"a","t","a","n","2">>, "ATAN2">>
   >>

CurrentEventNumber ==
    <<"c","u","r","r","e","n","t","E","v","e","n","t","N","u","m","b","e","r">>

\* XCDFFile::HasField / HasAlias and the typed accessors
HasField(f, name) == \E fd \in f.fields : fd.name = name
FieldType(f, name) == (CHOOSE fd \in f.fields : fd.name = name).type
HasAlias(f, name) == \E al \in f.aliases : al.name = name
AliasType(f, name) == (CHOOSE al \in f.aliases : al.name = name).type

KeywordType(exp) ==
    FunctionKeywords[CHOOSE k \in 1 .. Len(FunctionKeywords) : FunctionKeywords[k][1] = exp][2]
IsKeyword(exp) == \E k \in 1 .. Len(FunctionKeywords) : FunctionKeywords[k][1] = exp

\* ParseValueImpl after the field, the alias and currentEventNumber
ParseValueKeyword(exp, numerical) ==
    IF numerical # NULL THEN numerical
    ELSE IF IsKeyword(exp) THEN Symbol(KeywordType(exp))
    ELSE IF exp = <<"t","r","u","e">> THEN ConstNode("UNSIGNED_NODE", 1)
    ELSE IF exp = <<"f","a","l","s","e">> THEN ConstNode("UNSIGNED_NODE", 0)
    ELSE NULL

\* the token tried as a number before anything else
ParseValueImplNumberFirst(f, tail, exp) ==
    IF ParseNumerical(exp, tail) # NULL THEN ParseNumerical(exp, tail)
    ELSE IF HasField(f, exp) THEN FieldNode(FieldType(f, exp), exp)
    ELSE IF HasAlias(f, exp) THEN AliasNode(AliasType(f, exp), exp)
    ELSE IF exp = CurrentEventNumber THEN CounterNode
    ELSE ParseValueKeyword(exp, NULL)

ParseValueImpl(f, tail, exp) ==
    IF HasField(f, exp) THEN FieldNode(FieldType(f, exp), exp)
    ELSE IF HasAlias(f, exp) THEN AliasNode(AliasType(f, exp), exp)
    ELSE IF exp = CurrentEventNumber THEN CounterNode
    ELSE ParseValueKeyword(exp, ParseNumerical(exp, tail))

OperatorTable ==
   <<
      <<<<"+">>, "ADDITION">>,
      <<<<"-">>, "SUBTRACTION">>,
      <<<<"*">>, "MULTIPLICATION">>,
      <<<<"/">>, "DIVISION">>,
      <<<<"%">>, "MODULUS">>,
      <<<<"^">>, "POWER">>,
      <<<<"(">>, "OPEN_PARAND">>,
      <<<<")">>, "CLOSE_PARAND">>,
      <<<<"=","=">>, "EQUALITY">>,
      <<<<"!","=">>, "INEQUALITY">>,
      <<<<">">>, "GREATER_THAN">>,
      <<<<"<">>, "LESS_THAN">>,
      <<<<">","=">>, "GREATER_THAN_EQUAL">>,
      <<<<"<","=">>, "LESS_THAN_EQUAL">>,
      <<<<"|","|">>, "LOGICAL_OR">>,
      <<<<"&","&">>, "LOGICAL_AND">>,
      <<<<"|">>, "BITWISE_OR">>,
      <<<<"&">>, "BITWISE_AND">>,
      <<<<"!">>, "LOGICAL_NOT">>,
      <<<<"~">>, "BITWISE_NOT">>,
      <<<<",">>, "COMMA">>
   >>

ParseOperatorImpl(exp) ==
    IF \E k \in 1 .. Len(OperatorTable) : OperatorTable[k][1] = exp
    THEN Symbol(OperatorTable[CHOOSE k \in 1 .. Len(OperatorTable) :
                                  OperatorTable[k][1] = exp][2])
    ELSE NULL

\* A tokenizer result: the symbol, the cursor after it, and whether XCDFFatal
\* was raised
Token(sym, p) == [sym |-> sym, pos |-> p, fatal |-> FALSE]
TokenFatal(p) == [sym |-> NULL, pos |-> p, fatal |-> TRUE]
TokenOrFatal(sym, p) == IF sym = NULL THEN TokenFatal(p) ELSE Token(sym, p)

\* the end of the run of operator characters that starts at endpos
RECURSIVE OperatorEnd(_, _)
OperatorEnd(exp, endpos) ==
    IF FindFirstOf(exp, OperatorRunChars, endpos + 1) = endpos + 1
    THEN OperatorEnd(exp, endpos + 1) ELSE endpos

ParseOperatorAt(exp, startpos, endpos) ==
    TokenOrFatal(ParseOperatorImpl(Substr(exp, startpos, endpos + 1 - startpos)), endpos + 1)

ParseOperator(exp, p) ==
    ParseOperatorAt(exp, p,
                    IF At(exp, p) \notin {"(", ")"} THEN OperatorEnd(exp, p) ELSE p)

\* the end of the next candidate of ParseValue's loop: before the last + or -
BeforeSign(exp, sign) ==
    IF sign # npos THEN FindLastNotOf(exp, SignChars \cup WhiteSpace, sign) ELSE npos
ShorterValue(exp, endpos) == BeforeSign(exp, FindLastOf(exp, SignChars, endpos))

\* the while loop of ParseValue: the largest prefix that parses, shrinking to
\* before the last + or - on failure
RECURSIVE ParseValueLoop(_, _, _, _, _, _)
ParseValueFound(f, tail, exp, startpos, endpos, operpos, val) ==
    IF val # NULL
    THEN IF IsFunction(val) /\ (operpos = npos \/ At(exp, operpos) # "(")
         THEN TokenFatal(startpos)
         ELSE Token(val, endpos + 1)
    ELSE ParseValueLoop(f, tail, exp, startpos, ShorterValue(exp, endpos), operpos)

ParseValueLoop(f, tail, exp, startpos, endpos, operpos) ==
    IF endpos = npos \/ endpos < startpos THEN TokenFatal(startpos)
    ELSE ParseValueFound(f, tail, exp, startpos, endpos, operpos,
             ParseValueImpl(f, tail, Substr(exp, startpos, endpos - startpos + 1)))

\* a leading + or - taken as an operator whatever stands before it
ParseValueSignIsOperator(f, tail, parsed, exp, p, operpos) ==
    IF At(exp, p) \in SignChars
    THEN ParseOperator(exp, p)
    ELSE ParseValueLoop(f, tail, exp, p, FindLastNotOf(exp, WhiteSpace, operpos - 1), operpos)

ParseValue(f, tail, parsed, exp, p, operpos) ==
    IF /\ At(exp, p) \in SignChars
       /\ Len(parsed) > 0
       /\ (IsNode(parsed[Len(parsed)]) \/ parsed[Len(parsed)].type = "CLOSE_PARAND")
    THEN ParseOperator(exp, p)
    ELSE ParseValueLoop(f, tail, exp, p, FindLastNotOf(exp, WhiteSpace, operpos - 1), operpos)

\* GetNextSymbol: sym = NULL without fatal when nothing is left
NextSymbolAt(f, tail, parsed, exp, p, operpos) ==
    IF p = npos THEN Token(NULL, npos)
    ELSE IF p # operpos THEN ParseValue(f, tail, parsed, exp, p, operpos)
    ELSE ParseOperator(exp, p)
NextSymbolFrom(f, tail, parsed, exp, p) ==
    NextSymbolAt(f, tail, parsed, exp, p, FindFirstOf(exp, OperatorChars, p))
NextSymbol(f, tail, parsed, exp, p) ==
    NextSymbolFrom(f, tail, parsed, exp, FindFirstNotOf(exp, WhiteSpace, p))

----------------------------------------------------------------------------
(* Node construction: GetNodeImpl, GetInNode, DoGetNode                    *)

\* the marker of a raised XCDFFatal where a Symbol* is expected
XCDFFatal == [type |-> "XCDFFatal"]

\* new Symbol(): the type of a default-constructed Symbol
DefaultSymbol == Symbol("NO_TYPE")

\* The element type each node class declares (NodeDefs.h)
UnaryResultType(op, T) ==
    IF op \in {"LOGICAL_NOT", "UNIQUE", "ANY", "ALL", "ISNAN", "ISINF", "UNSIGNED"}
    THEN "UNSIGNED_NODE"
    ELSE IF op \in {"BITWISE_NOT", "SUM", "ABS"} THEN T
    ELSE IF op = "INT" THEN "SIGNED_NODE"
    ELSE "FLOATING_POINT_NODE"

BinaryResultType(op, D) ==
    IF op \in {"EQUALITY", "INEQUALITY", "GREATER_THAN", "LESS_THAN",
               "GREATER_THAN_EQUAL", "LESS_THAN_EQUAL", "LOGICAL_OR", "LOGICAL_AND"}
    THEN "UNSIGNED_NODE"
    ELSE IF op \in {"POWER", "FMOD", "ATAN2", "POW"} THEN "FLOATING_POINT_NODE"
    ELSE D

\* Bitwise nodes over a floating-point operand are rejected when built
BitwiseRejected(op, T, U) ==
    /\ op \in {"BITWISE_NOT", "BITWISE_OR", "BITWISE_AND"}
    /\ "FLOATING_POINT_NODE" \in {T, U}

UnaryNodeOps ==
    UnaryFunctions \cup {"LOGICAL_NOT", "BITWISE_NOT"}
BinaryNodeOps ==
    {"EQUALITY", "INEQUALITY", "GREATER_THAN", "LESS_THAN", "GREATER_THAN_EQUAL",
     "LESS_THAN_EQUAL", "LOGICAL_OR", "LOGICAL_AND", "BITWISE_OR", "BITWISE_AND",
     "ADDITION", "SUBTRACTION", "MULTIPLICATION", "DIVISION", "MODULUS", "POWER",
     "FMOD", "ATAN2", "POW"}

UnaryNode(t, op, n1) == [type |-> t, node |-> "Unary", op |-> op, n1 |-> n1]

\* the node with its operands the other way round
BinaryNodeSwapped(t, op, n1, n2) ==
    [type |-> t, node |-> "Binary", op |-> op, n1 |-> n2, n2 |-> n1]

BinaryNode(t, op, n1, n2) ==
    [type |-> t, node |-> "Binary", op |-> op, n1 |-> n1, n2 |-> n2]
InNode(T, n1, data) ==
    [type |-> "UNSIGNED_NODE", node |-> "In", elem |-> T, n1 |-> n1, data |-> data]
RandNode == [type |-> "FLOATING_POINT_NODE", node |-> "Rand"]

\* GetNodeImpl(Node<T>* n1, SymbolType type)
GetNodeImpl1(T, n1, type) ==
    IF type \notin UnaryNodeOps THEN DefaultSymbol
    ELSE IF BitwiseRejected(type, T, T) THEN XCDFFatal
    ELSE UnaryNode(UnaryResultType(type, T), type, n1)

\* GetNodeImpl<T, U, DominantType>(n1, n2, type)
GetNodeImpl2(T, U, D, n1, n2, type) ==
    IF type \notin BinaryNodeOps THEN DefaultSymbol
    ELSE IF BitwiseRejected(type, T, U) THEN XCDFFatal
    ELSE BinaryNode(BinaryResultType(type, D), type, n1, n2)

\* GetNodeImpl(SymbolType type)
GetNodeImpl0(type) == IF type = "RAND" THEN RandNode ELSE DefaultSymbol

\* the double rounded away from zero instead
TruncateRoundingUp(v) ==
    IF v[1] >= 0 THEN (v[1] + v[2] - 1) \div v[2] ELSE 0 - (((0 - v[1]) + v[2] - 1) \div v[2])

\* static_cast<T>(v) of a value of element type U.  Integers of either
\* signedness keep their residue; a double num/den truncates toward zero; the
\* uint64_t 2^64 - k becomes the double <<-k, 1, "+2^64">>.
Truncate(v) ==
    IF v[1] >= 0 THEN v[1] \div v[2] ELSE 0 - ((0 - v[1]) \div v[2])
StaticCast(T, U, v) ==
    IF T = "FLOATING_POINT_NODE"
    THEN (IF U = "FLOATING_POINT_NODE" THEN v
          ELSE IF U = "UNSIGNED_NODE" /\ v < 0 THEN <<v, 1, "+2^64">>
          ELSE <<v, 1>>)
    ELSE (IF U = "FLOATING_POINT_NODE" THEN Truncate(v) ELSE v)

\* GetConstValue<T, U>(s): the dynamic_cast succeeds on a ConstNode<U> only
IsConstNode(s) == IsNode(s) /\ s.node = "Const"

\* GetNodeValue<T>(s): the switch over s->GetType() selects U; a symbol that
\* is no node, or no ConstNode<U>, raises XCDFFatal
NodeValueFatal(s) == ~IsConstNode(s)
GetNodeValue(T, s) == StaticCast(T, s.type, s.val)

\* the node built from the first element only
GetInNodeFirstOnly(T, n1, n2) ==
    LET elems == IF n2.type = "LIST" THEN n2.symbols ELSE <<n2>>
    IN  IF \E k \in 1 .. Len(elems) : NodeValueFatal(elems[k]) THEN XCDFFatal
        ELSE InNode(T, n1, <<GetNodeValue(T, elems[1])>>)

GetInNode(T, n1, n2) ==
    LET elems == IF n2.type = "LIST" THEN n2.symbols ELSE <<n2>>
    IN  IF \E k \in 1 .. Len(elems) : NodeValueFatal(elems[k]) THEN XCDFFatal
        ELSE InNode(T, n1, [k \in 1 .. Len(elems) |-> GetNodeValue(T, elems[k])])

\* DoGetNode(Symbol* n1, SymbolType type)
DoGetNode1(n1, type) ==
    IF n1.type = "SIGNED_NODE" THEN GetNodeImpl1("SIGNED_NODE", n1, type)
    ELSE IF n1.type = "UNSIGNED_NODE" THEN GetNodeImpl1("UNSIGNED_NODE", n1, type)
    ELSE GetNodeImpl1("FLOATING_POINT_NODE", n1, type)

\* the first operand's type as the dominant type
DominantTypeOfFirst(T, U) == T

\* the third template argument DoGetNode passes for operand types (T, U)
DominantType(T, U) ==
    IF T = "FLOATING_POINT_NODE" THEN "FLOATING_POINT_NODE"
    ELSE IF T = "SIGNED_NODE"
         THEN (IF U \in {"SIGNED_NODE", "UNSIGNED_NODE"} THEN "SIGNED_NODE"
               ELSE "FLOATING_POINT_NODE")
    ELSE (IF U = "SIGNED_NODE" THEN "SIGNED_NODE"
          ELSE IF U = "UNSIGNED_NODE" THEN "UNSIGNED_NODE"
          ELSE "FLOATING_POINT_NODE")

\* DoGetNode(Symbol* n1, Symbol* n2, SymbolType type)
DoGetNode2(n1, n2, type) ==
    IF type = "IN"
    THEN (IF n1.type = "SIGNED_NODE" THEN GetInNode("SIGNED_NODE", n1, n2)
          ELSE IF n1.type = "UNSIGNED_NODE" THEN GetInNode("UNSIGNED_NODE", n1, n2)
          ELSE GetInNode("FLOATING_POINT_NODE", n1, n2))
    ELSE IF ~IsNode(n1) THEN DefaultSymbol
    ELSE LET U == IF n2.type \in {"SIGNED_NODE", "UNSIGNED_NODE"} THEN n2.type
                  ELSE "FLOATING_POINT_NODE"
         IN  GetNodeImpl2(n1.type, U, DominantType(n1.type, U), n1, n2, type)

----------------------------------------------------------------------------
(* The reduction passes over a range [start, end) of parsedSymbols_.  A    *)
(* range is the sequence of its symbols; an iterator is an index into it   *)
(* and end is Len + 1.  A pass state carries the range, the symbols pushed *)
(* to allocatedSymbols_ so far, whether XCDFFatal was raised, and whether  *)
(* an iterator was decremented at parsedSymbols_.begin() (ub).             *)

PassState(syms, allocated) ==
    [fatal |-> FALSE, ub |-> FALSE, syms |-> syms, allocated |-> allocated]
Fatal(st) == [st EXCEPT !.fatal = TRUE]

\* ReplaceSymbols(s, removeStart, n, start): the n symbols at removeStart are
\* replaced by s (by nothing when s is NULL); the iterator returned is
\* removeStart in the new range
ReplaceSymbols(syms, s, removeStart, n) ==
    SubSeq(syms, 1, removeStart - 1)
        \o (IF s = NULL THEN <<>> ELSE <<s>>)
        \o SubSeq(syms, removeStart + n, Len(syms))

GetUnarySymbol(syms, it, type, isFunction) ==
    IF (Len(syms) + 1) - it < 2 THEN XCDFFatal
    ELSE LET n1 == syms[it + 1]
         IN  IF ~IsNode(n1) THEN XCDFFatal
             ELSE IF it + 2 <= Len(syms) /\ IsNode(syms[it + 2]) /\ isFunction
             THEN XCDFFatal
             ELSE DoGetNode1(n1, type)

\* the binary symbol built from the first two elements of a longer list
GetBinarySymbolFirstTwo(syms, it, type, isFunction) ==
    IF isFunction
    THEN IF (Len(syms) + 1) - it < 2 THEN XCDFFatal
         ELSE IF syms[it + 1].type # "LIST" THEN XCDFFatal
         ELSE IF ~IsNode(syms[it + 1].symbols[1])
                    \/ ~(IsNode(syms[it + 1].symbols[2]) \/ type = "IN")
         THEN XCDFFatal
         ELSE DoGetNode2(syms[it + 1].symbols[1], syms[it + 1].symbols[2], type)
    ELSE IF it = 1 \/ (Len(syms) + 1) - it < 2 THEN XCDFFatal
    ELSE IF ~IsNode(syms[it - 1]) \/ ~(IsNode(syms[it + 1]) \/ type = "IN")
    THEN XCDFFatal
    ELSE DoGetNode2(syms[it - 1], syms[it + 1], type)

GetBinarySymbol(syms, it, type, isFunction) ==
    IF isFunction
    THEN IF (Len(syms) + 1) - it < 2 THEN XCDFFatal
         ELSE LET argList == syms[it + 1]
              IN  IF argList.type # "LIST" THEN XCDFFatal
                  ELSE IF Len(argList.symbols) < 2 THEN XCDFFatal
                  ELSE IF Len(argList.symbols) > 2 THEN XCDFFatal
                  ELSE LET n1 == argList.symbols[1]
                           n2 == argList.symbols[2]
                       IN  IF ~IsNode(n1) \/ ~(IsNode(n2) \/ type = "IN")
                           THEN XCDFFatal
                           ELSE DoGetNode2(n1, n2, type)
    ELSE IF it = 1 \/ (Len(syms) + 1) - it < 2 THEN XCDFFatal
         ELSE LET n1 == syms[it - 1]
                  n2 == syms[it + 1]
              IN  IF ~IsNode(n1) \/ ~(IsNode(n2) \/ type = "IN")
                  THEN XCDFFatal
                  ELSE DoGetNode2(n1, n2, type)

GetVoidSymbol(syms, it, type) ==
    IF it + 1 <= Len(syms) /\ IsNode(syms[it + 1]) THEN XCDFFatal
    ELSE GetNodeImpl0(type)

\* the reduction without the push to allocatedSymbols_
ReduceUnowned(st, sym, removeStart, n) ==
    IF sym = XCDFFatal THEN Fatal(st)
    ELSE [st EXCEPT !.syms = ReplaceSymbols(st.syms, sym, removeStart, n)]

\* One reduction at iterator it: sym is built, pushed to allocatedSymbols_ and
\* put in place of the n symbols at removeStart
Reduce(st, sym, removeStart, n) ==
    IF sym = XCDFFatal THEN Fatal(st)
    ELSE [st EXCEPT !.syms = ReplaceSymbols(st.syms, sym, removeStart, n),
                    !.allocated = Append(@, sym)]

\* the loop reducing the rightmost operator of ops first
RECURSIVE BinaryLoopFromEnd(_, _, _)
BinaryLoopFromEnd(st, it, ops) ==
    IF st.fatal \/ ~(\E k \in 1 .. Len(st.syms) : st.syms[k].type \in ops) THEN st
    ELSE BinaryLoopFromEnd(
             Reduce(st,
                    GetBinarySymbol(st.syms,
                                    CHOOSE k \in 1 .. Len(st.syms) :
                                        /\ st.syms[k].type \in ops
                                        /\ \A j \in k + 1 .. Len(st.syms) : st.syms[j].type \notin ops,
                                    st.syms[CHOOSE k \in 1 .. Len(st.syms) :
                                        /\ st.syms[k].type \in ops
                                        /\ \A j \in k + 1 .. Len(st.syms) : st.syms[j].type \notin ops].type,
                                    FALSE),
                    (CHOOSE k \in 1 .. Len(st.syms) :
                         /\ st.syms[k].type \in ops
                         /\ \A j \in k + 1 .. Len(st.syms) : st.syms[j].type \notin ops) - 1,
                    3),
             it, ops)

\* The loop shared by the binary passes:
\*   for (it = start; it != end; ++it)
\*     if (*it is one of ops) { s = GetBinarySymbol(.., false);
\*                              it = ReplaceSymbols(s, --it, 3, start); }
RECURSIVE BinaryLoop(_, _, _)
BinaryLoop(st, it, ops) ==
    IF st.fatal \/ it > Len(st.syms) THEN st
    ELSE IF st.syms[it].type \in ops
    THEN BinaryLoop(
             Reduce(st, GetBinarySymbol(st.syms, it, st.syms[it].type, FALSE), it - 1, 3),
             (it - 1) + 1, ops)
    ELSE BinaryLoop(st, it + 1, ops)

\* The body of ReplaceFunctions' loop: four tests in sequence, each on the
\* symbol it points to after the reductions before it
FunctionStepUnary(st, it) ==
    IF IsUnaryFunction(st.syms[it])
    THEN Reduce(st, GetUnarySymbol(st.syms, it, st.syms[it].type, TRUE), it, 2)
    ELSE st
FunctionStepVoid(st, it) ==
    IF ~st.fatal /\ IsVoidFunction(st.syms[it])
    THEN Reduce(st, GetVoidSymbol(st.syms, it, st.syms[it].type), it, 1)
    ELSE st
FunctionStepBinary(st, it) ==
    IF ~st.fatal /\ IsBinaryFunction(st.syms[it])
    THEN Reduce(st, GetBinarySymbol(st.syms, it, st.syms[it].type, TRUE), it, 2)
    ELSE st
FunctionStepPower(st, it) ==
    IF ~st.fatal /\ st.syms[it].type = "POWER"
    THEN [st |-> Reduce(st, GetBinarySymbol(st.syms, it, "POWER", FALSE), it - 1, 3),
          it |-> it - 1]
    ELSE [st |-> st, it |-> it]

RECURSIVE FunctionLoop(_, _)
FunctionNext(r) == FunctionLoop(r.st, r.it + 1)
FunctionLoop(st, it) ==
    IF st.fatal \/ it > Len(st.syms) THEN st
    ELSE FunctionNext(
             FunctionStepPower(
                 FunctionStepBinary(FunctionStepVoid(FunctionStepUnary(st, it), it), it),
                 it))

ReplaceFunctions(st) == FunctionLoop(st, 1)

RECURSIVE UnaryLoop(_, _)
UnaryLoop(st, it) ==
    IF st.fatal \/ it > Len(st.syms) THEN st
    ELSE IF st.syms[it].type \in {"LOGICAL_NOT", "BITWISE_NOT"}
    THEN UnaryLoop(Reduce(st, GetUnarySymbol(st.syms, it, st.syms[it].type, FALSE), it, 2),
                   it + 1)
    ELSE UnaryLoop(st, it + 1)

ReplaceUnary(st) == UnaryLoop(st, 1)

ReplaceMultiplyDivideModulus(st) ==
    BinaryLoop(st, 1, {"MULTIPLICATION", "DIVISION", "MODULUS"})

ReplaceAdditionSubtraction(st) ==
    BinaryLoop(st, 1, {"ADDITION", "SUBTRACTION"})

ReplaceComparison(st) ==
    BinaryLoop(
        BinaryLoop(st, 1, {"GREATER_THAN", "LESS_THAN", "GREATER_THAN_EQUAL", "LESS_THAN_EQUAL"}),
        1, {"EQUALITY", "INEQUALITY"})

ReplaceBitwise(st) ==
    BinaryLoop(BinaryLoop(st, 1, {"BITWISE_AND"}), 1, {"BITWISE_OR"})

ReplaceLogical(st) ==
    BinaryLoop(BinaryLoop(st, 1, {"LOGICAL_AND"}), 1, {"LOGICAL_OR"})

\* ReplaceCommas; atBegin: start is parsedSymbols_.begin(), so that "it--"
\* after a leading comma was erased decrements begin()
RECURSIVE CommaLoop(_, _, _)
CommaLoop(st, it, atBegin) ==
    IF st.fatal \/ it > Len(st.syms) THEN st
    ELSE IF st.syms[it].type = "COMMA"
    THEN IF it = 1 \/ (Len(st.syms) + 1) - it = 1
         THEN CommaLoop([st EXCEPT !.syms = ReplaceSymbols(st.syms, NULL, it, 1),
                                   !.ub = @ \/ (atBegin /\ it = 1)],
                        (it - 1) + 1, atBegin)
         ELSE IF st.syms[it - 1].type = "LIST"
         THEN CommaLoop(
                  [st EXCEPT !.syms = ReplaceSymbols(
                                          st.syms, PushBack(st.syms[it - 1], st.syms[it + 1]),
                                          it - 1, 3)],
                  (it - 1) + 1, atBegin)
         ELSE CommaLoop(
                  [st EXCEPT !.syms = ReplaceSymbols(
                                          st.syms, ListSymbol(st.syms[it - 1], st.syms[it + 1]),
                                          it - 1, 3),
                             !.allocated = Append(@, ListSymbol(st.syms[it - 1],
                                                                st.syms[it + 1]))],
                  (it - 1) + 1, atBegin)
    ELSE CommaLoop(st, it + 1, atBegin)

\* the pass from the second symbol on: a comma at start stays
ReplaceCommasAfterStart(st, atBegin) == CommaLoop(st, 2, atBegin)

ReplaceCommas(st, atBegin) == CommaLoop(st, 1, atBegin)

\* the scan without the check of nOpen > 0 after the loop
RECURSIVE ScanParenthesisUnchecked(_, _, _, _)
ScanParenthesisUnchecked(syms, it, nOpen, firstOpenParand) ==
    IF it > Len(syms)
    THEN [fatal |-> FALSE, firstOpenParand |-> IF nOpen > 0 THEN 0 ELSE firstOpenParand,
          closeParand |-> 0]
    ELSE IF syms[it].type = "OPEN_PARAND"
    THEN ScanParenthesisUnchecked(syms, it + 1, nOpen + 1,
                                  IF firstOpenParand = 0 THEN it ELSE firstOpenParand)
    ELSE IF syms[it].type = "CLOSE_PARAND"
    THEN IF nOpen - 1 = 0
         THEN [fatal |-> FALSE, firstOpenParand |-> firstOpenParand, closeParand |-> it]
         ELSE IF nOpen - 1 < 0
         THEN [fatal |-> TRUE, firstOpenParand |-> firstOpenParand, closeParand |-> 0]
         ELSE ScanParenthesisUnchecked(syms, it + 1, nOpen - 1, firstOpenParand)
    ELSE ScanParenthesisUnchecked(syms, it + 1, nOpen, firstOpenParand)

\* The scan of ReplaceParenthesis: the first "(" and the ")" that closes it
RECURSIVE ScanParenthesis(_, _, _, _)
ScanParenthesis(syms, it, nOpen, firstOpenParand) ==
    IF it > Len(syms)
    THEN [fatal |-> nOpen > 0, firstOpenParand |-> firstOpenParand, closeParand |-> 0]
    ELSE IF syms[it].type = "OPEN_PARAND"
    THEN ScanParenthesis(syms, it + 1, nOpen + 1,
                         IF firstOpenParand = 0 THEN it ELSE firstOpenParand)
    ELSE IF syms[it].type = "CLOSE_PARAND"
    THEN IF nOpen - 1 = 0
         THEN [fatal |-> FALSE, firstOpenParand |-> firstOpenParand, closeParand |-> it]
         ELSE IF nOpen - 1 < 0
         THEN [fatal |-> TRUE, firstOpenParand |-> firstOpenParand, closeParand |-> 0]
         ELSE ScanParenthesis(syms, it + 1, nOpen - 1, firstOpenParand)
    ELSE ScanParenthesis(syms, it + 1, nOpen, firstOpenParand)

\* the passes with ! and ~ applied ahead of the functions and ^
ApplyOperatorsUnaryFirst(st, atBegin) ==
    ReplaceCommas(
        ReplaceLogical(
            ReplaceBitwise(
                ReplaceComparison(
                    ReplaceAdditionSubtraction(
                        ReplaceMultiplyDivideModulus(
                            ReplaceFunctions(
                                ReplaceUnary(st))))))),
        atBegin)

\* the passes with the additive pass ahead of the multiplicative one
ApplyOperatorsAdditiveFirst(st, atBegin) ==
    ReplaceCommas(
        ReplaceLogical(
            ReplaceBitwise(
                ReplaceComparison(
                    ReplaceMultiplyDivideModulus(
                        ReplaceAdditionSubtraction(
                            ReplaceUnary(
                                ReplaceFunctions(st))))))),
        atBegin)

\* The passes of RecursiveParseExpression after the parentheses are gone.  A
\* pass handed a state in which XCDFFatal was raised returns it as it is.
ApplyOperators(st, atBegin) ==
    ReplaceCommas(
        ReplaceLogical(
            ReplaceBitwise(
                ReplaceComparison(
                    ReplaceAdditionSubtraction(
                        ReplaceMultiplyDivideModulus(
                            ReplaceUnary(
                                ReplaceFunctions(st))))))),
        atBegin)

RECURSIVE RecursiveParseExpression(_, _)
RECURSIVE ParenthesisLoop(_)

\* ReplaceParenthesis after the recursive call on the contents of the pair:
\* the pair is erased and what the contents reduced to stays
EraseParenthesis(st, scan, inner) ==
    IF inner.fatal THEN inner
    ELSE ParenthesisLoop(
             [inner EXCEPT !.syms =
                 SubSeq(st.syms, 1, scan.firstOpenParand - 1)
                     \o inner.syms
                     \o SubSeq(st.syms, scan.closeParand + 1, Len(st.syms))])

ReplaceParenthesis(st, scan) ==
    IF scan.fatal THEN Fatal(st)
    ELSE IF scan.firstOpenParand = 0 THEN st
    ELSE EraseParenthesis(
             st, scan,
             RecursiveParseExpression(
                 [st EXCEPT !.syms = SubSeq(st.syms, scan.firstOpenParand + 1,
                                            scan.closeParand - 1)],
                 FALSE))

\* while (ReplaceParenthesis(start, end)) { }: each round parses the contents
\* of the first pair and erases the pair
ParenthesisLoop(st) == ReplaceParenthesis(st, ScanParenthesis(st.syms, 1, 0, 0))

RecursiveParseExpression(st, atBegin) ==
    IF Len(st.syms) = 0 THEN st
    ELSE ApplyOperators(ParenthesisLoop(st), atBegin)

----------------------------------------------------------------------------
(* Expression::Init as operators: ParseSymbols, then the parse             *)

\* ParseSymbols: the loop over GetNextSymbol; every token is pushed to
\* parsedSymbols_ and to allocatedSymbols_
RECURSIVE ParseSymbolsLoop(_, _, _, _, _)
ParseSymbolsNext(f, tail, exp, parsed, t) ==
    IF t.fatal THEN Fatal(PassState(parsed, parsed))
    ELSE IF t.sym = NULL THEN PassState(parsed, parsed)
    ELSE ParseSymbolsLoop(f, tail, exp, t.pos, Append(parsed, t.sym))
ParseSymbolsLoop(f, tail, exp, p, parsed) ==
    ParseSymbolsNext(f, tail, exp, parsed, NextSymbol(f, tail, parsed, exp, p))

ParseSymbols(f, tail, exp) == ParseSymbolsLoop(f, tail, exp, 0, <<>>)

\* the test written as "no symbol is left"
InvalidExpressionEmpty(syms) == Len(syms) < 1

\* distance(start, end) != 1 after the parse
InvalidExpression(syms) == Len(syms) # 1

\* if (distance(start, end) != 1) XCDFFatal("Invalid expression: ...")
CheckExpression(r) ==
    IF r.fatal THEN r
    ELSE IF InvalidExpression(r.syms) THEN Fatal(r)
    ELSE r

\* Init after ParseSymbols
ParseExpression(st) ==
    IF Len(st.syms) = 0 THEN Fatal(st)
    ELSE CheckExpression(RecursiveParseExpression(st, TRUE))

\* The whole of Expression::Init on the text exp
Compile(f, tail, exp) == ParseExpression(ParseSymbols(f, tail, exp))

----------------------------------------------------------------------------
(* The bound file                                                          *)

Schema ==
    [fields  |-> {[name |-> <<"n">>, type |-> "UNSIGNED_NODE"],
                  [name |-> <<"v">>, type |-> "FLOATING_POINT_NODE"],
                  [name |-> <<"a">>, type |-> "UNSIGNED_NODE"],
                  [name |-> <<"b">>, type |-> "UNSIGNED_NODE"],
                  [name |-> <<"c">>, type |-> "UNSIGNED_NODE"],
                  [name |-> <<"d">>, type |-> "UNSIGNED_NODE"],
                  [name |-> <<"s">>, type |-> "SIGNED_NODE"],
                  [name |-> <<"x">>, type |-> "FLOATING_POINT_NODE"],
                  [name |-> <<"w">>, type |-> "UNSIGNED_NODE"]},
     aliases |-> {[name |-> <<"A">>, type |-> "UNSIGNED_NODE"]}]

\* Two rows of the file: the values of every field and alias
Row0 ==
    [n |-> <<3>>, v |-> << <<1, 1>>, <<4, 1>>, <<9, 1>> >>, a |-> <<2>>, b |-> <<3>>,
     c |-> <<5>>, d |-> <<7>>, s |-> <<0 - 4>>, x |-> << <<5, 2>> >>, A |-> <<6>>,
     w |-> <<2, 0>>, event |-> 0]
Row1 ==
    [n |-> <<0>>, v |-> <<>>, a |-> <<1>>, b |-> <<0>>,
     c |-> <<2>>, d |-> <<1>>, s |-> <<3>>, x |-> << <<0, 1>> >>, A |-> <<0>>,
     w |-> <<5>>, event |-> 1]
Rows == {Row0, Row1}

----------------------------------------------------------------------------
(* The state machine                                                       *)

\* The strings over an alphabet of at most n characters
StringsUpTo(alphabet, n) == UNION {[1 .. k -> alphabet] : k \in 0 .. n}

InitWith(inputs, tails) ==
    /\ expString_ \in inputs
    /\ f_ = Schema
    /\ hexTail \in tails
    /\ pos = 0
    /\ parsedSymbols_ = <<>>
    /\ allocatedSymbols_ = <<>>
    /\ pc = "ParseSymbols"
    /\ row = Row0
    /\ NoHistogram

\* One round of the loop of ParseSymbols: t is what GetNextSymbol returned
PushSymbol(t) ==
    IF t.fatal
    THEN /\ pc' = "fatal"
         /\ UNCHANGED <<pos, parsedSymbols_, allocatedSymbols_>>
    ELSE IF t.sym = NULL
    THEN /\ pc' = "Parse"
         /\ pos' = t.pos
         /\ UNCHANGED <<parsedSymbols_, allocatedSymbols_>>
    ELSE /\ pc' = "ParseSymbols"
         /\ pos' = t.pos
         /\ parsedSymbols_' = Append(parsedSymbols_, t.sym)
         /\ allocatedSymbols_' = Append(allocatedSymbols_, t.sym)

GetNextSymbol ==
    /\ pc = "ParseSymbols"
    /\ PushSymbol(NextSymbol(f_, hexTail, parsedSymbols_, expString_, pos))
    /\ UNCHANGED <<expString_, f_, hexTail, row>>
    /\ UNCHANGED histogram

\* The rest of Expression::Init, r being what the parse came to.  Decrementing
\* begin() is undefined: the release containers wrap through the list's
\* sentinel and go on, a checked build stops the program.
FinishParse(r) ==
    \E outcome \in (IF r.ub THEN {"wrap", "trap"} ELSE {"wrap"}) :
        IF outcome = "trap"
        THEN /\ pc' = "trap"
             /\ UNCHANGED <<parsedSymbols_, allocatedSymbols_>>
        ELSE IF r.fatal
        THEN /\ pc' = "fatal"
             /\ UNCHANGED <<parsedSymbols_, allocatedSymbols_>>
        ELSE /\ pc' = "done"
             /\ parsedSymbols_' = r.syms
             /\ allocatedSymbols_' = r.allocated

InitParse ==
    /\ pc = "Parse"
    /\ FinishParse(ParseExpression(PassState(parsedSymbols_, allocatedSymbols_)))
    /\ UNCHANGED <<expString_, f_, hexTail, pos, row>>
    /\ UNCHANGED histogram

\* XCDFFile::Read: the file moves to another row
Read ==
    /\ pc = "done"
    /\ row' \in Rows \ {row}
    /\ UNCHANGED <<expString_, f_, hexTail, pos, parsedSymbols_, allocatedSymbols_, pc>>
    /\ UNCHANGED histogram

Next == GetNextSymbol \/ InitParse \/ Read


----------------------------------------------------------------------------
(* Specifications.  Each draws the text to compile from a bounded family.  *)

MaxLen == 4

\* Texts of parentheses, commas, operands of each kind and two operators
ParenAlphabet == {"n", "1", "2", "(", ")", ",", "+", "!", " "}

\* Texts of a function keyword or an operator with and without operands
HeadExamples ==
    { <<"s", "i", "n">>,
      <<"r", "a", "n", "d">>,
      <<"r", "a", "n", "d", "(", ")">>,
      <<"s", "i", "n", "(", ")">>,
      <<"s", "i", "n", "(", "n", ")">>,
      <<"i", "n", "(", "n", ",", "1", ")">>,
      <<"i", "n">>,
      <<"*">>,
      <<"^">>,
      <<"n", "^">>,
      <<"~">> }

Init == InitWith(StringsUpTo(ParenAlphabet, MaxLen) \cup HeadExamples, {<<>>})

Spec == Init /\ [][Next]_vars

----------------------------------------------------------------------------
(* What Init leaves in parsedSymbols_                                      *)

\* C1 as stated: whenever Init completes without a fatal error, parsedSymbols_
\* holds exactly one symbol and it is a typed node, for every text, `1, 2`
\* included.
C1_HeadIsTypedNode ==
    pc = "done" => Len(parsedSymbols_) = 1 /\ IsNode(parsedSymbols_[1])

\* C1 amended: whenever Init completes without a fatal error, parsedSymbols_
\* holds exactly one symbol, which is a typed node or, for a text with a
\* top-level comma such as `1, 2`, a List; never an operator or a function.
C1_HeadIsNodeOrList ==
    pc = "done" =>
        /\ Len(parsedSymbols_) = 1
        /\ IsNode(parsedSymbols_[1]) \/ parsedSymbols_[1].type = "LIST"

\* `1, 2` compiled: the head is the List of the two constants
C1_ListHeadReached ==
    /\ pc = "done"
    /\ expString_ = <<"1", ",", " ", "2">>
    /\ parsedSymbols_ = <<ListSymbol(ConstNode("UNSIGNED_NODE", 1),
                                     ConstNode("UNSIGNED_NODE", 2))>>

----------------------------------------------------------------------------
(* Parentheses                                                             *)

\* the nesting depth after each prefix of the text
RECURSIVE Depth(_, _)
Depth(s, k) ==
    IF k = 0 THEN 0
    ELSE Depth(s, k - 1) + (IF s[k] = "(" THEN 1 ELSE IF s[k] = ")" THEN 0 - 1 ELSE 0)

Balanced(s) == Depth(s, Len(s)) = 0 /\ \A k \in 1 .. Len(s) : Depth(s, k) >= 0

\* C2: a text whose parentheses are not balanced (an extra "(", an extra ")",
\* or a ")" before its "(") never yields a compiled expression: Init has not
\* ended, or it ended in a fatal error.
C2_UnbalancedIsFatal ==
    ~Balanced(expString_) => pc \in {"ParseSymbols", "Parse", "fatal"}

\* a ")" that precedes its "(": as many of each, all tokens read, and the
\* parse ended in a fatal error
C2_UnbalancedReached ==
    /\ ~Balanced(expString_)
    /\ Depth(expString_, Len(expString_)) = 0
    /\ pos = npos
    /\ Len(parsedSymbols_) >= 2
    /\ pc = "fatal"

----------------------------------------------------------------------------
(* Chains of infix operators: x0 op1 x1 op2 x2 ...                         *)

MaxOps == 2

\* the lexemes and types of the infix operators
InfixOperators ==
    {OperatorTable[k] : k \in {j \in 1 .. Len(OperatorTable) :
                                   OperatorTable[j][2] \in BinaryNodeOps}}

\* the operands of a chain, by position: unsigned scalar fields
Operands == << <<"a">>, <<"b">>, <<"c">>, <<"d">>, <<"n">> >>

\* x0 op1 x1 ... opk xk, with sp around each operator
RECURSIVE ChainText(_, _)
ChainText(ops, sp) ==
    IF ops = <<>> THEN Operands[1]
    ELSE ChainText(SubSeq(ops, 1, Len(ops) - 1), sp)
             \o sp \o ops[Len(ops)][1] \o sp \o Operands[Len(ops) + 1]

ChainExamples ==
    { <<"2", " ", "^", " ", "1", "0", " ", "+", " ", "1">>,
      <<"2", " ", "^", " ", "3", " ", "^", " ", "2">> }

ChainTexts ==
    {prefix \o ChainText(ops, sp) :
         prefix \in {<<>>, <<"!">>, <<"~">>},
         ops \in UNION {[1 .. k -> InfixOperators] : k \in 0 .. MaxOps},
         sp \in {<<>>, <<" ">>}}
    \cup ChainExamples

ChainInit == InitWith(ChainTexts, {<<>>})

ChainSpec == ChainInit /\ [][Next]_vars

\* The tree a symbol stands for, without the element types
RECURSIVE Shape(_)
Shape(s) ==
    IF s.node = "Const" THEN <<"Const", s.val>>
    ELSE IF s.node \in {"Field", "Alias"} THEN <<"Field", s.name>>
    ELSE IF s.node = "Unary" THEN <<s.op, Shape(s.n1)>>
    ELSE IF s.node = "Binary" THEN <<s.op, Shape(s.n1), Shape(s.n2)>>
    ELSE <<s.node>>

\* the precedence classes, tightest first
PrecedenceClass(type) ==
    CASE type \in {"MULTIPLICATION", "DIVISION", "MODULUS"} -> 1
      [] type \in {"ADDITION", "SUBTRACTION"} -> 2
      [] type \in {"LESS_THAN", "LESS_THAN_EQUAL", "GREATER_THAN", "GREATER_THAN_EQUAL"} -> 3
      [] type \in {"EQUALITY", "INEQUALITY"} -> 4
      [] type = "BITWISE_AND" -> 5
      [] type = "BITWISE_OR" -> 6
      [] type = "LOGICAL_AND" -> 7
      [] type = "LOGICAL_OR" -> 8
      [] OTHER -> 0

Evens(t) == {k \in 1 .. Len(t) : k % 2 = 0}
Odds(t) == {k \in 1 .. Len(t) : k % 2 = 1}

\* a token range node op node ... op node whose operators are all in ops
IsChain(t, ops) ==
    /\ Len(t) >= 3
    /\ Len(t) % 2 = 1
    /\ \A k \in Odds(t) : IsNode(t[k])
    /\ \A k \in Evens(t) : t[k].type \in ops

ClassOperators == {type \in BinaryNodeOps : PrecedenceClass(type) > 0}

DistinctClasses(t) ==
    \A j, k \in Evens(t) :
        j # k /\ PrecedenceClass(t[j].type) > 0
            => PrecedenceClass(t[j].type) # PrecedenceClass(t[k].type)

\* a chain with the shapes of its operands in place of the nodes and the
\* types of its operators in place of the symbols
ChainOf(t) == [k \in 1 .. Len(t) |-> IF k % 2 = 1 THEN Shape(t[k]) ELSE t[k].type]

\* the tree of a chain in which the operator of the loosest class is applied
\* last, to everything on its left and everything on its right
RECURSIVE LoosestLast(_)
LoosestLast(c) ==
    IF Len(c) = 1 THEN c[1]
    ELSE LET k == CHOOSE i \in Evens(c) :
                      \A j \in Evens(c) : PrecedenceClass(c[j]) <= PrecedenceClass(c[i])
         IN  <<c[k], LoosestLast(SubSeq(c, 1, k - 1)), LoosestLast(SubSeq(c, k + 1, Len(c)))>>

\* the tree (((x0 op1 x1) op2 x2) ... opn xn)
RECURSIVE LeftNested(_)
LeftNested(c) ==
    IF Len(c) = 1 THEN c[1]
    ELSE <<c[Len(c) - 1], LeftNested(SubSeq(c, 1, Len(c) - 2)), c[Len(c)]>>

\* the tree (x0 op1 (x1 op2 ... (xn-1 opn xn)))
RECURSIVE RightNested(_)
RightNested(c) ==
    IF Len(c) = 1 THEN c[1]
    ELSE <<c[2], c[1], RightNested(SubSeq(c, 3, Len(c)))>>

\* C3: a parenthesis-free range whose binary operators belong to different
\* classes compiles to the tree in which an operator of an earlier class (in
\* the order * / %, + -, < <= > >=, == !=, &, |, &&, ||) binds tighter than one
\* of a later class, wherever the two stand in the text.
C3_PrecedenceOrder ==
    [][pc = "Parse" /\ IsChain(parsedSymbols_, ClassOperators) /\ DistinctClasses(parsedSymbols_)
          => /\ pc' = "done"
             /\ Len(parsedSymbols_') = 1
             /\ Shape(parsedSymbols_'[1]) = LoosestLast(ChainOf(parsedSymbols_))]_vars

FieldShape(name) == <<"Field", <<name>> >>

\* `a | b & c` compiled to a | (b & c)
C3_PrecedenceReached ==
    /\ pc = "done"
    /\ expString_ = <<"a", " ", "|", " ", "b", " ", "&", " ", "c">>
    /\ Shape(parsedSymbols_[1])
           = <<"BITWISE_OR", FieldShape("a"), <<"BITWISE_AND", FieldShape("b"), FieldShape("c")>> >>

SameClass(t) ==
    \A j, k \in Evens(t) : PrecedenceClass(t[j].type) = PrecedenceClass(t[k].type)

\* C4: a chain x0 op1 x1 op2 x2 ... opn xn whose operators all belong to one
\* precedence class compiles to (((x0 op1 x1) op2 x2) ... opn xn).
C4_LeftAssociative ==
    [][pc = "Parse" /\ IsChain(parsedSymbols_, ClassOperators) /\ SameClass(parsedSymbols_)
          => /\ pc' = "done"
             /\ Len(parsedSymbols_') = 1
             /\ Shape(parsedSymbols_'[1]) = LeftNested(ChainOf(parsedSymbols_))]_vars

\* `a - b + c` compiled to (a - b) + c
C4_LeftNestedReached ==
    /\ pc = "done"
    /\ expString_ = <<"a", " ", "-", " ", "b", " ", "+", " ", "c">>
    /\ Shape(parsedSymbols_[1])
           = <<"ADDITION", <<"SUBTRACTION", FieldShape("a"), FieldShape("b")>>, FieldShape("c")>>

----------------------------------------------------------------------------
(* The power operator                                                      *)

\* The value of a scalar node built from constants: a double is the exact
\* ratio <<num, den>>, an integer is itself.  pow() is taken for exponents
\* that are natural numbers.
RECURSIVE RatioPower(_, _)
RatioPower(x, n) ==
    IF n = 0 THEN <<1, 1>> ELSE <<x[1] * RatioPower(x, n - 1)[1], x[2] * RatioPower(x, n - 1)[2]>>
AsDouble(type, v) == IF type = "FLOATING_POINT_NODE" THEN v ELSE <<v, 1>>
AsNatural(type, v) == IF type = "FLOATING_POINT_NODE" THEN v[1] \div v[2] ELSE v

RECURSIVE Evaluate(_)
EvaluateBinary(s, type1, v1, type2, v2) ==
    IF s.op = "POWER" THEN RatioPower(AsDouble(type1, v1), AsNatural(type2, v2))
    ELSE IF s.op = "ADDITION" /\ s.type = "FLOATING_POINT_NODE"
    THEN <<AsDouble(type1, v1)[1] * AsDouble(type2, v2)[2]
               + AsDouble(type2, v2)[1] * AsDouble(type1, v1)[2],
           AsDouble(type1, v1)[2] * AsDouble(type2, v2)[2]>>
    ELSE IF s.op = "ADDITION" THEN v1 + v2
    ELSE IF s.op = "MULTIPLICATION" /\ s.type = "FLOATING_POINT_NODE"
    THEN <<AsDouble(type1, v1)[1] * AsDouble(type2, v2)[1],
           AsDouble(type1, v1)[2] * AsDouble(type2, v2)[2]>>
    ELSE v1 * v2
Evaluate(s) ==
    IF s.node = "Const" THEN s.val
    ELSE EvaluateBinary(s, s.n1.type, Evaluate(s.n1), s.n2.type, Evaluate(s.n2))

UnaryOperators == {"LOGICAL_NOT", "BITWISE_NOT"}

\* the range without a leading ! or ~
Operand(t) == IF Len(t) > 0 /\ t[1].type \in UnaryOperators THEN Tail(t) ELSE t

PowerAt(t) == {k \in Evens(t) : t[k].type = "POWER"}

\* an optional ! or ~, then a chain with one ^ among operators of different
\* classes
IsPowerChain(t) ==
    /\ IsChain(Operand(t), ClassOperators \cup {"POWER"})
    /\ Cardinality(PowerAt(Operand(t))) = 1
    /\ DistinctClasses(Operand(t))

\* the chain with x ^ y taken as one operand
GroupPower(c, k) ==
    SubSeq(c, 1, k - 2) \o << <<"POWER", c[k - 1], c[k + 1]>> >> \o SubSeq(c, k + 2, Len(c))

\* the chain with the unary operator applied to its first operand
ApplyUnary(t, c) ==
    IF t[1].type \in UnaryOperators THEN [c EXCEPT ![1] = <<t[1].type, @>>] ELSE c

PowerFirst(t) ==
    LoosestLast(
        ApplyUnary(t, GroupPower(ChainOf(Operand(t)), CHOOSE k \in PowerAt(Operand(t)) : TRUE)))

PowerExamples ==
    { <<"2", " ", "^", " ", "1", "0", " ", "+", " ", "1">>,
      <<"a", " ", "*", " ", "b", " ", "^", " ", "c">>,
      <<"!", "a", " ", "^", " ", "b">> }

\* C5: ^ is applied to the two operands next to it before a leading ! or ~
\* and before every other binary operator of the range: whenever such a range
\* compiles, the tree is the one with x ^ y as one operand.  `2 ^ 10 + 1`,
\* `a * b ^ c` and `!a ^ b` compile, and (2 ^ 10) + 1 has the value 1025.
C5_PowerBindsTightest ==
    [][pc = "Parse" /\ IsPowerChain(parsedSymbols_)
          => /\ pc' = "done" =>
                    /\ Len(parsedSymbols_') = 1
                    /\ Shape(parsedSymbols_'[1]) = PowerFirst(parsedSymbols_)
             /\ expString_ \in PowerExamples => pc' = "done"
             /\ expString_ = <<"2", " ", "^", " ", "1", "0", " ", "+", " ", "1">>
                    => Evaluate(parsedSymbols_'[1]) = <<1025, 1>>]_vars

\* `!a ^ b` compiled to !(a ^ b)
C5_PowerUnderNotReached ==
    /\ pc = "done"
    /\ expString_ = <<"!", "a", " ", "^", " ", "b">>
    /\ Shape(parsedSymbols_[1])
           = <<"LOGICAL_NOT", <<"POWER", FieldShape("a"), FieldShape("b")>> >>

IsPowerOnlyChain(t) == IsChain(t, {"POWER"}) /\ Len(t) >= 5

\* C6 as stated: a chain a ^ b ^ c is built as a ^ (b ^ c).
C6_PowerRightAssociative ==
    [][pc = "Parse" /\ IsPowerOnlyChain(parsedSymbols_)
          => /\ pc' = "done"
             /\ Shape(parsedSymbols_'[1]) = RightNested(ChainOf(parsedSymbols_))]_vars

\* C6 amended: a chain a ^ b ^ c is built as (a ^ b) ^ c, the leftmost ^
\* first; `2 ^ 3 ^ 2` is (2 ^ 3) ^ 2.
C6_PowerLeftAssociative ==
    [][pc = "Parse" /\ IsPowerOnlyChain(parsedSymbols_)
          => /\ pc' = "done"
             /\ Len(parsedSymbols_') = 1
             /\ Shape(parsedSymbols_'[1]) = LeftNested(ChainOf(parsedSymbols_))]_vars

\* `2 ^ 3 ^ 2` compiled to (2 ^ 3) ^ 2
C6_PowerChainReached ==
    /\ pc = "done"
    /\ expString_ = <<"2", " ", "^", " ", "3", " ", "^", " ", "2">>
    /\ Shape(parsedSymbols_[1])
           = <<"POWER", <<"POWER", <<"Const", 2>>, <<"Const", 3>> >>, <<"Const", 2>> >>

----------------------------------------------------------------------------
(* A sign at the start of the text                                         *)

Signs == {<<"+">>, <<"-">>}
Gaps == {<<>>, <<" ">>}
NamedOperands == {<<"n">>, <<"s">>, <<"x">>, <<"A">>}
LiteralOperands == {<<"1">>, <<"3">>, <<"1", ".", "5">>}
Continuations ==
    {<<>>, <<" ", "+", " ", "1">>, <<"+", "1">>, <<" ", "*", " ", "2">>, <<" ", "-", " ", "n">>}

\* a sign, then a field or an alias
SignedNameTexts ==
    {sign \o gap \o name \o rest :
         sign \in Signs, gap \in Gaps, name \in NamedOperands, rest \in Continuations}

\* a sign and the digits of a literal right after it
SignedLiteralTexts ==
    {sign \o literal \o rest :
         sign \in Signs, literal \in LiteralOperands, rest \in Continuations}

\* a sign, blanks, then a literal
DetachedSignTexts ==
    {sign \o <<" ">> \o literal \o rest :
         sign \in Signs, literal \in LiteralOperands, rest \in Continuations}

SignInit == InitWith(SignedNameTexts \cup SignedLiteralTexts \cup DetachedSignTexts, {<<>>})

SignSpec == SignInit /\ [][Next]_vars

\* C7 as stated: `-n + 1`, a minus applied to the unsigned field n, compiles
\* (to a node whose value for n = 3 is -2, true as an event filter).
C7_UnaryMinusCompiles ==
    expString_ = <<"-", "n", " ", "+", " ", "1">> => pc # "fatal"

\* C7 amended: a text that starts with a sign applied to a field or an alias,
\* such as `-n + 1`, does not compile: ParseValue ends in a fatal error on the
\* first token.  A leading sign is taken only as part of a numeric literal
\* that follows it at once, as in `-1 + n`, which compiles.
C7_SignOnlyOnLiteral ==
    /\ expString_ \in SignedNameTexts \cup DetachedSignTexts
           => pc \in {"ParseSymbols", "fatal"} /\ parsedSymbols_ = <<>>
    /\ expString_ \in SignedLiteralTexts
           => /\ pc # "fatal"
              /\ Len(parsedSymbols_) > 0 => IsConstNode(allocatedSymbols_[1])

\* `-n + 1` ended in a fatal error with no symbol read
C7_UnaryMinusFatalReached ==
    /\ expString_ = <<"-", "n", " ", "+", " ", "1">>
    /\ pc = "fatal"
    /\ parsedSymbols_ = <<>>

----------------------------------------------------------------------------
(* Membership: in(x, list)                                                 *)

MaxElems == 2

\* the subjects: an unsigned, a signed and a floating-point scalar field
InSubjects == {<<"n">>, <<"s">>, <<"x">>}

\* The elements: the text, whether it is a literal constant, and its value
\* as an integer and as a double
InElements ==
    { [text |-> <<"1">>, const |-> TRUE, int |-> 1, double |-> <<1, 1>>],
      [text |-> <<"5">>, const |-> TRUE, int |-> 5, double |-> <<5, 1>>],
      [text |-> <<"1", ".", "5">>, const |-> TRUE, int |-> 1, double |-> <<15, 10>>],
      [text |-> <<"n">>, const |-> FALSE, int |-> 0, double |-> <<0, 1>>],
      [text |-> <<"A">>, const |-> FALSE, int |-> 0, double |-> <<0, 1>>],
      [text |-> <<"1", "+", "2">>, const |-> FALSE, int |-> 0, double |-> <<0, 1>>],
      [text |-> <<"(", "1", ",", "2", ")">>, const |-> FALSE, int |-> 0, double |-> <<0, 1>>] }

\* the element lists: a parenthesised list is an element after the first place
InLists ==
    {es \in UNION {[1 .. k -> InElements] : k \in 1 .. MaxElems} :
         es[1].text[1] # "("}

\* e1, e2, ..., ek
RECURSIVE ListText(_)
ListText(es) ==
    IF Len(es) = 1 THEN es[1].text
    ELSE ListText(SubSeq(es, 1, Len(es) - 1)) \o <<",", " ">> \o es[Len(es)].text

\* in(x, (e1, ..., ek)) and, for one element, in(x, e1)
CallText(x, es, listed) ==
    <<"i", "n", "(">> \o x \o <<",", " ">>
        \o (IF listed THEN <<"(">> \o ListText(es) \o <<")">> ELSE ListText(es))
        \o <<")">>

\* x in (e1, ..., ek)
InfixText(x, es) == x \o <<" ", "i", "n", " ", "(">> \o ListText(es) \o <<")">>

\* the calls: every list in parentheses, and a single element also bare
Calls ==
    {[x |-> x, es |-> es, text |-> CallText(x, es, TRUE)] :
         x \in InSubjects, es \in InLists}
    \cup {[x |-> x, es |-> <<e>>, text |-> CallText(x, <<e>>, FALSE)] :
              x \in InSubjects, e \in {d \in InElements : d.text[1] # "("}}

InfixTexts ==
    {InfixText(x, es) : x \in InSubjects, es \in InLists}
        \cup { <<"n", " ", "i", "n", " ", "(", "1", ",", " ", "3", ",", " ", "5", ")">> }

InInit ==
    InitWith({c.text : c \in Calls} \cup InfixTexts \cup { <<"i", "n", "(", "n", ",", " ", "(", "1", ",", " ", "3", ",", " ", "5", ")", ")">> },
             {<<>>})

InSpec == InInit /\ [][Next]_vars

\* C8 as stated: the infix form `n in (1, 3, 5)` compiles.
C8_InfixCompiles ==
    expString_ = <<"n", " ", "i", "n", " ", "(", "1", ",", " ", "3", ",", " ", "5", ")">> => pc # "fatal"

Elements(data) == {data[k] : k \in 1 .. Len(data)}

\* C8 amended: the infix form `n in (1, 3, 5)` does not compile (a fatal error
\* on the first token); the call `in(n, (1, 3, 5))` compiles to a membership
\* node over n with the constants 1, 3, 5, which hold the n of the row where
\* n = 3 and not the n of the row where n = 0.
C8_MembershipIsACall ==
    /\ expString_ \in InfixTexts
           => pc \in {"ParseSymbols", "fatal"} /\ parsedSymbols_ = <<>>
    /\ expString_ = <<"i", "n", "(", "n", ",", " ", "(", "1", ",", " ", "3", ",", " ", "5", ")", ")">>
           => /\ pc # "fatal"
              /\ pc = "done" =>
                     /\ parsedSymbols_
                            = <<InNode("UNSIGNED_NODE", FieldNode("UNSIGNED_NODE", <<"n">>),
                                       <<1, 3, 5>>)>>
                     /\ row.n[1] \in Elements(parsedSymbols_[1].data) <=> row = Row0

\* `in(n, (1, 3, 5))` compiled and the file is at the row where n = 0
C8_CallReached ==
    /\ expString_ = <<"i", "n", "(", "n", ",", " ", "(", "1", ",", " ", "3", ",", " ", "5", ")", ")">>
    /\ pc = "done"
    /\ row = Row1
    /\ parsedSymbols_[1].node = "In"

ValueAs(type, e) == IF type = "FLOATING_POINT_NODE" THEN e.double ELSE e.int

----------------------------------------------------------------------------
(* Numeric literals                                                        *)

MaxDigits == 4

LiteralAlphabet == {"0", "1", "F", "x", "X", "."}

\* the bytes after hex[2]: a NUL at once, or a byte and then a NUL
HexTails == {<<>>, <<"1">>}

LiteralInit == InitWith(StringsUpTo(LiteralAlphabet, MaxDigits), HexTails)

LiteralSpec == LiteralInit /\ [][Next]_vars

\* C9: a literal that contains x or X is tried as hexadecimal: `0x1F` and
\* `0X1F` are unsigned constants of value 31.
C9_HexLiteralIsConstant ==
    expString_ \in { <<"0", "x", "1", "F">>, <<"0", "X", "1", "F">> }
        => /\ pc # "fatal"
           /\ pc \in {"Parse", "done"} => parsedSymbols_ = <<ConstNode("UNSIGNED_NODE", 31)>>

----------------------------------------------------------------------------
(* The element types of a binary node                                      *)

\* one operand of each element type: fields and literals
TypedOperands ==
    {<<"n">>, <<"s">>, <<"x">>, <<"1">>, <<"-", "1">>, <<"1", ".", "5">>}

\* operators whose node takes the DominantType argument
DominantOperators ==
    {<<"+">>, <<"-">>, <<"*">>, <<"/">>, <<"=", "=">>, <<"<">>, <<"&", "&">>}

TypeTexts ==
    {lhs \o <<" ">> \o op \o <<" ">> \o rhs :
         lhs \in TypedOperands, op \in DominantOperators, rhs \in TypedOperands}

TypeInit == InitWith(TypeTexts, {<<>>})

TypeSpec == TypeInit /\ [][Next]_vars

\* the table of the dominant type
DominantOf(t1, t2) ==
    IF "FLOATING_POINT_NODE" \in {t1, t2} THEN "FLOATING_POINT_NODE"
    ELSE IF "SIGNED_NODE" \in {t1, t2} THEN "SIGNED_NODE"
    ELSE "UNSIGNED_NODE"

Arithmetic == {"ADDITION", "SUBTRACTION", "MULTIPLICATION", "DIVISION"}

\* C11: for a binary operator over operands of element types (t1, t2),
\* DoGetNode takes as dominant type F64 if either is F64, otherwise I64 if
\* either is I64, otherwise U64; the choice is the same for (t2, t1), and an
\* arithmetic node has the dominant type as its element type.
C11_DominantType ==
    (pc = "done" /\ parsedSymbols_[1].node = "Binary") =>
        LET t1 == parsedSymbols_[1].n1.type
            t2 == parsedSymbols_[1].n2.type
        IN  /\ parsedSymbols_[1]
                   = GetNodeImpl2(t1, t2, DominantOf(t1, t2), parsedSymbols_[1].n1,
                                  parsedSymbols_[1].n2, parsedSymbols_[1].op)
            /\ DominantType(t1, t2) = DominantOf(t1, t2)
            /\ DominantType(t2, t1) = DominantType(t1, t2)
            /\ parsedSymbols_[1].op \in Arithmetic
                   => parsedSymbols_[1].type = DominantOf(t1, t2)

\* `n + s` compiled: an unsigned and a signed operand give a signed node
C11_UnsignedSignedReached ==
    /\ expString_ = <<"n", " ", "+", " ", "s">>
    /\ pc = "done"
    /\ parsedSymbols_[1].n1.type = "UNSIGNED_NODE"
    /\ parsedSymbols_[1].n2.type = "SIGNED_NODE"
    /\ parsedSymbols_[1].type = "SIGNED_NODE"

----------------------------------------------------------------------------
(* Evaluation of a node on a row: its elements in order                    *)

\* the elements of a field or an alias in the row (names of one character)
FieldValues(r, name) == r[name[1]]

NonZero(type, v) == AsDouble(type, v)[1] # 0
LessThan(type1, v1, type2, v2) ==
    AsDouble(type1, v1)[1] * AsDouble(type2, v2)[2]
        < AsDouble(type2, v2)[1] * AsDouble(type1, v1)[2]
EqualTo(type1, v1, type2, v2) ==
    AsDouble(type1, v1)[1] * AsDouble(type2, v2)[2]
        = AsDouble(type2, v2)[1] * AsDouble(type1, v1)[2]
Flag(b) == IF b THEN 1 ELSE 0

\* one element of a binary node from one element of each operand
Combine(s, type1, v1, type2, v2) ==
    IF s.op = "LESS_THAN" THEN Flag(LessThan(type1, v1, type2, v2))
    ELSE IF s.op = "GREATER_THAN" THEN Flag(LessThan(type2, v2, type1, v1))
    ELSE IF s.op = "LESS_THAN_EQUAL" THEN Flag(~LessThan(type2, v2, type1, v1))
    ELSE IF s.op = "GREATER_THAN_EQUAL" THEN Flag(~LessThan(type1, v1, type2, v2))
    ELSE IF s.op = "EQUALITY" THEN Flag(EqualTo(type1, v1, type2, v2))
    ELSE IF s.op = "INEQUALITY" THEN Flag(~EqualTo(type1, v1, type2, v2))
    ELSE IF s.op = "LOGICAL_AND" THEN Flag(NonZero(type1, v1) /\ NonZero(type2, v2))
    ELSE IF s.op = "LOGICAL_OR" THEN Flag(NonZero(type1, v1) \/ NonZero(type2, v2))
    ELSE IF s.op = "SUBTRACTION" /\ s.type = "FLOATING_POINT_NODE"
    THEN <<AsDouble(type1, v1)[1] * AsDouble(type2, v2)[2]
               - AsDouble(type2, v2)[1] * AsDouble(type1, v1)[2],
           AsDouble(type1, v1)[2] * AsDouble(type2, v2)[2]>>
    ELSE IF s.op = "SUBTRACTION" THEN v1 - v2
    ELSE EvaluateBinary(s, type1, v1, type2, v2)

Min(i, j) == IF i < j THEN i ELSE j
Max(i, j) == IF i < j THEN j ELSE i

\* the size of the shorter operand
BinarySizeOfShorter(s1, s2) == Min(s1, s2)

\* the size of a binary node over operands of sizes s1 and s2
BinarySize(s1, s2) == IF s1 = 0 \/ s2 = 0 THEN 0 ELSE Max(s1, s2)

\* the elements of a binary node: the shorter operand repeats its last element
BinaryElements(s, e1, e2) ==
    [i \in 1 .. BinarySize(Len(e1), Len(e2)) |->
         Combine(s, s.n1.type, e1[Min(i, Len(e1))], s.n2.type, e2[Min(i, Len(e2))])]

\* the elements of a unary node: ! acts on each element, any and all reduce
UnaryElements(s, e1) ==
    IF s.op = "ANY" THEN <<Flag(\E i \in 1 .. Len(e1) : NonZero(s.n1.type, e1[i]))>>
    ELSE IF s.op = "ALL" THEN <<Flag(\A i \in 1 .. Len(e1) : NonZero(s.n1.type, e1[i]))>>
    ELSE [i \in 1 .. Len(e1) |-> Flag(~NonZero(s.n1.type, e1[i]))]

RECURSIVE Get(_, _)
Get(s, r) ==
    IF s.node = "Const" THEN <<s.val>>
    ELSE IF s.node \in {"Field", "Alias"} THEN FieldValues(r, s.name)
    ELSE IF s.node = "Counter" THEN <<r.event>>
    ELSE IF s.node = "Unary" THEN UnaryElements(s, Get(s.n1, r))
    ELSE BinaryElements(s, Get(s.n1, r), Get(s.n2, r))

----------------------------------------------------------------------------
(* EventSelectExpression                                                   *)

\* the head of the expression under all instead
SelectNodeAll(start) ==
    IF IsNode(start) THEN UnaryNode("UNSIGNED_NODE", "ALL", start) ELSE XCDFFatal

\* EventSelectExpression(exp, f): selectNode_ for the head symbol start
SelectNode(start) ==
    IF IsNode(start) THEN UnaryNode("UNSIGNED_NODE", "ANY", start) ELSE XCDFFatal

\* SelectEvent(): (*selectNode_)[0]
SelectEvent(selectNode, r) == NonZero(selectNode.type, Get(selectNode, r)[1])

\* filters over the vector v, the vector w and the scalars
SelectOperands == {<<"v">>, <<"w">>, <<"n">>, <<"s">>, <<"x">>}
SelectOperators ==
    {<<">">>, <<"<">>, <<"=", "=">>, <<"!", "=">>, <<">", "=">>, <<"&", "&">>,
     <<"|", "|">>, <<"-">>}
SelectConstants == {<<"0">>, <<"1">>, <<"2">>, <<"4">>, <<"9">>}
SelectTexts ==
    {lhs \o <<" ">> \o op \o <<" ">> \o rhs :
         lhs \in SelectOperands, op \in SelectOperators,
         rhs \in SelectConstants \cup SelectOperands}
    \cup SelectOperands \cup {<<"v", ",", " ", "1">>}

SelectInit == InitWith(SelectTexts, {<<>>})

SelectSpec == SelectInit /\ [][Next]_vars

\* C12 as stated: SelectEvent is the truthiness of element 0 of the root and
\* false for a root of size 0; the elements from index 1 on do not matter.
C12_FirstElementOnly ==
    (pc = "done" /\ IsNode(parsedSymbols_[1])) =>
        (SelectEvent(SelectNode(parsedSymbols_[1]), row)
             <=> /\ Len(Get(parsedSymbols_[1], row)) > 0
                 /\ NonZero(parsedSymbols_[1].type, Get(parsedSymbols_[1], row)[1]))

\* C12 amended: SelectEvent is true iff some element of the root, at any
\* index, is non-zero for the current row, and false when the root has size
\* 0: `v > 2` selects the row where v = [1, 4, 9] though its element 0 is 0.
C12_AnyElement ==
    (pc = "done" /\ IsNode(parsedSymbols_[1])) =>
        /\ SelectEvent(SelectNode(parsedSymbols_[1]), row)
               <=> \E i \in 1 .. Len(Get(parsedSymbols_[1], row)) :
                       NonZero(parsedSymbols_[1].type, Get(parsedSymbols_[1], row)[i])
        /\ Len(Get(parsedSymbols_[1], row)) = 0
               => ~SelectEvent(SelectNode(parsedSymbols_[1]), row)
        /\ (expString_ = <<"v", " ", ">", " ", "2">> /\ row = Row0)
               => /\ Get(parsedSymbols_[1], row) = <<0, 1, 1>>
                  /\ SelectEvent(SelectNode(parsedSymbols_[1]), row)

\* `v > 2` compiled and the file is at the row where v = [1, 4, 9]
C12_LaterElementReached ==
    /\ expString_ = <<"v", " ", ">", " ", "2">>
    /\ pc = "done"
    /\ row = Row0
    /\ Get(parsedSymbols_[1], row) = <<0, 1, 1>>

----------------------------------------------------------------------------
(* A function keyword and what follows it                                  *)

Keywords == {<<"s", "i", "n">>, <<"r", "a", "n", "d">>, <<"p", "o", "w">>}

\* what stands between the keyword and the parenthesis
Between ==
    {<<>>, <<"-", "1">>, <<"+", "1">>, <<"-", "1", " ", "+">>, <<"a">>, <<"1">>, <<"-">>}
Arguments ==
    {<<>>, <<"(", ")">>, <<"(", "a", ")">>, <<"(", "a", ",", " ", "2", ")">>}

KeywordText(keyword, gap, between, rest, arguments) ==
    keyword \o gap \o between \o rest \o arguments

\* the keyword, then text that is no parenthesis
DetachedKeywordTexts ==
    {KeywordText(keyword, gap, between, rest, arguments) :
         keyword \in Keywords, gap \in Gaps, between \in Between \ {<<>>},
         rest \in Gaps, arguments \in Arguments}

KeywordTexts ==
    {KeywordText(keyword, gap, <<>>, <<>>, arguments) :
         keyword \in Keywords, gap \in Gaps, arguments \in Arguments}
    \cup DetachedKeywordTexts

KeywordInit == InitWith(KeywordTexts, {<<>>})

KeywordSpec == KeywordInit /\ [][Next]_vars

\* C13: when the tokenizer has just emitted a function symbol, the next
\* character of the text after the keyword that is no white space is `(`; a
\* text with anything else between the keyword and the next `(` does not
\* compile.
C13_KeywordNeedsParenthesis ==
    /\ (/\ pc = "ParseSymbols"
        /\ Len(parsedSymbols_) > 0
        /\ IsFunction(parsedSymbols_[Len(parsedSymbols_)]))
           => /\ FindFirstNotOf(expString_, WhiteSpace, pos) # npos
              /\ At(expString_, FindFirstNotOf(expString_, WhiteSpace, pos)) = "("
    /\ expString_ \in DetachedKeywordTexts => pc # "done"

----------------------------------------------------------------------------
(* The arguments of a function                                             *)

MaxArgs == 3

UnaryKeywords == {<<"s", "i", "n">>, <<"a", "b", "s">>}
BinaryKeywords ==
    {<<"p", "o", "w">>, <<"f", "m", "o", "d">>, <<"a", "t", "a", "n", "2">>, <<"i", "n">>}

\* the arguments: a field and a literal
ArgumentNode(text) ==
    IF text = <<"1">> THEN ConstNode("UNSIGNED_NODE", 1)
    ELSE FieldNode("UNSIGNED_NODE", text)
ArgumentTexts == {<<"a">>, <<"1">>}

\* the argument lists e1, e2, ..., ek of up to MaxArgs arguments
ArgumentLists == UNION {[1 .. k -> ArgumentTexts] : k \in 0 .. MaxArgs}

RECURSIVE JoinArguments(_)
JoinArguments(args) ==
    IF Len(args) = 0 THEN <<>>
    ELSE IF Len(args) = 1 THEN args[1]
    ELSE JoinArguments(SubSeq(args, 1, Len(args) - 1)) \o <<",", " ">> \o args[Len(args)]

\* f(args), f((args)) and f(args) b; following is what stands after the
\* function symbol once the parentheses are reduced
FunctionCall(keyword, args, open, close, extra) ==
    [text |-> keyword \o open \o JoinArguments(args) \o close
                  \o (IF extra THEN <<" ", "b">> ELSE <<>>),
     type |-> KeywordType(keyword),
     following |-> (IF Len(args) = 0 THEN <<>>
                    ELSE IF Len(args) = 1 THEN <<ArgumentNode(args[1])>>
                    ELSE <<[type |-> "LIST",
                            symbols |-> [k \in 1 .. Len(args) |-> ArgumentNode(args[k])]]>>)
                       \o (IF extra THEN <<ArgumentNode(<<"b">>)>> ELSE <<>>)]

FunctionCalls ==
    {FunctionCall(keyword, args, <<"(">>, <<")">>, extra) :
         keyword \in UnaryKeywords \cup BinaryKeywords, args \in ArgumentLists,
         extra \in BOOLEAN}
    \cup {FunctionCall(keyword, args, <<"(", "(">>, <<")", ")">>, FALSE) :
              keyword \in UnaryKeywords \cup BinaryKeywords, args \in ArgumentLists}

FunctionInit == InitWith({c.text : c \in FunctionCalls}, {<<>>})

FunctionSpec == FunctionInit /\ [][Next]_vars

\* exactly one node after a unary function; exactly one List of two nodes
\* after a binary function
WellFormedCall(c) ==
    /\ Len(c.following) = 1
    /\ IF c.type \in UnaryFunctions THEN IsNode(c.following[1])
       ELSE c.following[1].type = "LIST" /\ Len(c.following[1].symbols) = 2

\* the node of a well-formed call
CallBuilt(c, head) ==
    IF c.type \in UnaryFunctions
    THEN head.node = "Unary" /\ head.op = c.type /\ head.n1 = c.following[1]
    ELSE IF c.type = "IN"
    THEN head.node = "In" /\ head.n1 = c.following[1].symbols[1]
    ELSE /\ head.node = "Binary" /\ head.op = c.type
         /\ head.n1 = c.following[1].symbols[1]
         /\ head.n2 = c.following[1].symbols[2]

\* C14: in the function phase a unary function is built from exactly one
\* node that follows it and a binary function from one List of exactly two
\* nodes; with nothing after the function, a List after a unary function, a
\* single node or a List of three or more after a binary function, or a
\* second node after a unary function's argument, the compilation is fatal.
C14_FunctionArguments ==
    pc \in {"done", "fatal"} =>
        \A c \in FunctionCalls :
            expString_ = c.text =>
                /\ ~WellFormedCall(c) => pc = "fatal"
                /\ pc = "done" =>
                       Len(parsedSymbols_) = 1 /\ CallBuilt(c, parsedSymbols_[1])
                /\ (WellFormedCall(c) /\ (c.type = "IN" => IsConstNode(c.following[1].symbols[2])))
                       => pc = "done"

\* `sin(a) b` ended in a fatal error: a second node after the argument
C14_ExtraNodeReached ==
    /\ expString_ = <<"s", "i", "n", "(", "a", ")", " ", "b">>
    /\ pc = "fatal"
    /\ Len(parsedSymbols_) = 5

\* C15: a binary node over operands of sizes s1 and s2 has size 0 when s1 = 0
\* or s2 = 0 and max(s1, s2) otherwise; its element i combines element
\* min(i, s1 - 1) of the left operand with element min(i, s2 - 1) of the
\* right operand, both inside the operand's own size (indices here from 1).
C15_Broadcast ==
    (pc = "done" /\ IsNode(parsedSymbols_[1]) /\ parsedSymbols_[1].node = "Binary") =>
        /\ Len(Get(parsedSymbols_[1], row))
               = (IF Len(Get(parsedSymbols_[1].n1, row)) = 0
                         \/ Len(Get(parsedSymbols_[1].n2, row)) = 0
                  THEN 0
                  ELSE Max(Len(Get(parsedSymbols_[1].n1, row)),
                           Len(Get(parsedSymbols_[1].n2, row))))
        /\ \A i \in 1 .. Len(Get(parsedSymbols_[1], row)) :
               /\ Min(i, Len(Get(parsedSymbols_[1].n1, row)))
                      \in 1 .. Len(Get(parsedSymbols_[1].n1, row))
               /\ Min(i, Len(Get(parsedSymbols_[1].n2, row)))
                      \in 1 .. Len(Get(parsedSymbols_[1].n2, row))
               /\ Get(parsedSymbols_[1], row)[i]
                      = Combine(parsedSymbols_[1],
                                parsedSymbols_[1].n1.type,
                                Get(parsedSymbols_[1].n1, row)[
                                    Min(i, Len(Get(parsedSymbols_[1].n1, row)))],
                                parsedSymbols_[1].n2.type,
                                Get(parsedSymbols_[1].n2, row)[
                                    Min(i, Len(Get(parsedSymbols_[1].n2, row)))])
        /\ expString_ = <<"v", " ", "-", " ", "w">> =>
               Get(parsedSymbols_[1], row)
                   = (IF row = Row0 THEN << <<0 - 1, 1>>, <<4, 1>>, <<9, 1>> >> ELSE <<>>)

\* `v - w` compiled on the row where v has three elements and w has two
C15_UnequalSizesReached ==
    /\ expString_ = <<"v", " ", "-", " ", "w">>
    /\ pc = "done"
    /\ row = Row0
    /\ Len(Get(parsedSymbols_[1].n1, row)) = 3
    /\ Len(Get(parsedSymbols_[1].n2, row)) = 2
    /\ Len(Get(parsedSymbols_[1], row)) = 3

----------------------------------------------------------------------------
(* A sign after each kind of symbol                                        *)

\* what stands before the sign: nothing, a node, `)`, an operator, `(`, `,`
BeforeSignTexts ==
    {<<>>, <<"a">>, <<"a", " ">>, <<"1">>, <<"(", "a", ")">>, <<"(", "a", ")", " ">>,
     <<"a", " ", "*">>, <<"a", " ", "*", " ">>, <<"(">>, <<"a", ",">>, <<"a", ",", " ">>,
     <<"!">>}

\* what stands after it
AfterSignTexts ==
    {<<"1">>, <<" ", "1">>, <<"b">>, <<" ", "b">>, <<"(", "b", ")">>, <<"!", "b">>,
     <<"~", "1">>, <<" ", "!", "b">>}

SignPositionTexts ==
    {before \o sign \o after :
         before \in BeforeSignTexts, sign \in Signs, after \in AfterSignTexts}

SignPositionInit == InitWith(SignPositionTexts, {<<>>})

SignPositionSpec == SignPositionInit /\ [][Next]_vars

\* the next token starts with a sign
SignIsNext ==
    /\ pc = "ParseSymbols"
    /\ FindFirstNotOf(expString_, WhiteSpace, pos) # npos
    /\ At(expString_, FindFirstNotOf(expString_, WhiteSpace, pos)) \in SignChars

AfterNodeOrClose ==
    /\ Len(parsedSymbols_) > 0
    /\ \/ IsNode(parsedSymbols_[Len(parsedSymbols_)])
       \/ parsedSymbols_[Len(parsedSymbols_)].type = "CLOSE_PARAND"

\* C16: when the next token starts with + or -, the tokenizer emits that
\* character alone as ADDITION / SUBTRACTION if a symbol was emitted before
\* and the last one is a node or `)`; in every other position no operator is
\* emitted for the sign.
C16_SignAfterNodeIsOperator ==
    [][SignIsNext =>
           IF AfterNodeOrClose
           THEN /\ pc' = "ParseSymbols"
                /\ Len(parsedSymbols_') = Len(parsedSymbols_) + 1
                /\ parsedSymbols_'[Len(parsedSymbols_')].type \in {"ADDITION", "SUBTRACTION"}
                /\ pos' = FindFirstNotOf(expString_, WhiteSpace, pos) + 1
           ELSE \/ pc' = "fatal"
                \/ /\ Len(parsedSymbols_') = Len(parsedSymbols_) + 1
                   /\ IsConstNode(parsedSymbols_'[Len(parsedSymbols_')])]_vars

----------------------------------------------------------------------------
(* Runs of operator characters                                             *)

\* a op1 op2 b: an infix operator, then a prefix operator
PrefixOperators == {<<<<"!">>, "LOGICAL_NOT">>, <<<<"~">>, "BITWISE_NOT">>}

\* the text with the two operators adjacent or apart, and its tokens
OperatorRun(op1, op2, gap) ==
    [text |-> <<"a">> \o op1[1] \o gap \o op2[1] \o <<"b">>,
     adjacent |-> gap = <<>>,
     tokens |-> <<FieldNode("UNSIGNED_NODE", <<"a">>), Symbol(op1[2]), Symbol(op2[2]),
                  FieldNode("UNSIGNED_NODE", <<"b">>)>>]

OperatorRuns ==
    {OperatorRun(op1, op2, gap) :
         op1 \in InfixOperators, op2 \in PrefixOperators, gap \in Gaps}

OperatorRunInit == InitWith({r.text : r \in OperatorRuns}, {<<>>})

OperatorRunSpec == OperatorRunInit /\ [][Next]_vars

\* C17: at a run of adjacent operator characters the tokenizer emits the
\* longest known operator and goes on with the rest: `a&&!b` and `a==~b`
\* give the tokens a, &&, !, b and a, ==, ~, b, as `a && !b` and `a == ~b` do.
C17_LongestMatch ==
    \A r \in OperatorRuns :
        expString_ = r.text =>
            /\ pc # "fatal" \/ Len(parsedSymbols_) = Len(r.tokens)
            /\ pc = "Parse" => parsedSymbols_ = r.tokens

----------------------------------------------------------------------------
(* The classification of a value token                                     *)

\* A file whose fields and aliases carry the names of a function keyword, of
\* the reserved words and of numbers
ShadowingSchema ==
    [fields  |-> {[name |-> <<"s", "i", "n">>, type |-> "SIGNED_NODE"],
                  [name |-> <<"1">>, type |-> "FLOATING_POINT_NODE"],
                  [name |-> <<"t", "r", "u", "e">>, type |-> "UNSIGNED_NODE"],
                  [name |-> CurrentEventNumber, type |-> "FLOATING_POINT_NODE"],
                  [name |-> <<"q">>, type |-> "UNSIGNED_NODE"]},
     aliases |-> {[name |-> <<"q">>, type |-> "SIGNED_NODE"],
                  [name |-> <<"p", "o", "w">>, type |-> "UNSIGNED_NODE"],
                  [name |-> <<"2">>, type |-> "FLOATING_POINT_NODE"],
                  [name |-> <<"f", "a", "l", "s", "e">>, type |-> "SIGNED_NODE"]}]

ClassifyTokens ==
    {<<"s", "i", "n">>, <<"1">>, <<"t", "r", "u", "e">>, CurrentEventNumber, <<"q">>,
     <<"p", "o", "w">>, <<"2">>, <<"f", "a", "l", "s", "e">>, <<"n">>, <<"i", "n">>,
     <<"x">>, <<"3">>}

\* a token alone, two tokens around a +, a token and a parenthesised token
ClassifyTexts ==
    ClassifyTokens
    \cup {t \o <<" ", "+", " ">> \o u : t \in ClassifyTokens, u \in ClassifyTokens}
    \cup {t \o <<"(">> \o u \o <<")">> : t \in ClassifyTokens, u \in ClassifyTokens}

ClassifyInit ==
    /\ expString_ \in ClassifyTexts
    /\ f_ \in {Schema, ShadowingSchema}
    /\ hexTail = <<>>
    /\ pos = 0
    /\ parsedSymbols_ = <<>>
    /\ allocatedSymbols_ = <<>>
    /\ pc = "ParseSymbols"
    /\ row = Row0
    /\ NoHistogram

ClassifySpec == ClassifyInit /\ [][Next]_vars

\* what each token stands for without a field or an alias of its name
UnboundSymbol(tok) ==
    IF tok = CurrentEventNumber THEN CounterNode
    ELSE IF tok = <<"1">> THEN ConstNode("UNSIGNED_NODE", 1)
    ELSE IF tok = <<"2">> THEN ConstNode("UNSIGNED_NODE", 2)
    ELSE IF tok = <<"3">> THEN ConstNode("UNSIGNED_NODE", 3)
    ELSE IF tok = <<"s", "i", "n">> THEN Symbol("SIN")
    ELSE IF tok = <<"p", "o", "w">> THEN Symbol("POW")
    ELSE IF tok = <<"i", "n">> THEN Symbol("IN")
    ELSE IF tok = <<"t", "r", "u", "e">> THEN ConstNode("UNSIGNED_NODE", 1)
    ELSE IF tok = <<"f", "a", "l", "s", "e">> THEN ConstNode("UNSIGNED_NODE", 0)
    ELSE NULL

\* the first rule that matches: field, alias, then the rest
ExpectedSymbol(f, tok) ==
    IF \E fd \in f.fields : fd.name = tok
    THEN [type |-> (CHOOSE fd \in f.fields : fd.name = tok).type,
          node |-> "Field", name |-> tok]
    ELSE IF \E al \in f.aliases : al.name = tok
    THEN [type |-> (CHOOSE al \in f.aliases : al.name = tok).type,
          node |-> "Alias", name |-> tok]
    ELSE UnboundSymbol(tok)

\* the token tok is the next in the text, with p the place where it starts
TokenStartsAt(tok, p) ==
    /\ p # npos
    /\ Substr(expString_, p, Len(tok)) = tok
    /\ \/ p + Len(tok) = Len(expString_)
       \/ At(expString_, p + Len(tok)) \in WhiteSpace \cup {"(", ")"}

\* GetNextSymbol on the token: fatal when no rule matches or a function has
\* no `(` next, the expected symbol otherwise
TokenOutcome(tok, p, expected) ==
    IF expected = NULL THEN pc' = "fatal"
    ELSE IF IsFunction(expected)
            /\ (p + Len(tok) = Len(expString_) \/ At(expString_, p + Len(tok)) # "(")
    THEN pc' = "fatal"
    ELSE /\ pc' = "ParseSymbols"
         /\ parsedSymbols_' = Append(parsedSymbols_, expected)
         /\ pos' = p + Len(tok)

----------------------------------------------------------------------------
(* Lists in parentheses                                                    *)

LeadingCommas == {<<>>, <<",">>, <<",", " ">>}
TrailingCommas == {<<>>, <<",">>, <<" ", ",">>}

\* (args) and pow(args), with a comma before and after the arguments or not
CommaText(keyword, lead, args, trail) ==
    [text |-> keyword \o <<"(">> \o lead \o JoinArguments(args) \o trail \o <<")">>,
     call |-> keyword # <<>>,
     nodes |-> [k \in 1 .. Len(args) |-> ArgumentNode(args[k])]]

CommaTexts ==
    {CommaText(keyword, lead, args, trail) :
         keyword \in {<<>>, <<"p", "o", "w">>}, lead \in LeadingCommas,
         args \in ArgumentLists, trail \in TrailingCommas}

CommaInit == InitWith({c.text : c \in CommaTexts}, {<<>>})

CommaSpec == CommaInit /\ [][Next]_vars

\* C19: n nodes separated by commas inside one pair of parentheses reduce
\* to one List of the n nodes in the order of the text (n >= 2), with or
\* without a comma before the first and after the last; so `pow(, a, 1 ,)`
\* builds the node that `pow(a, 1)` builds.
C19_FlatListInOrder ==
    pc \in {"done", "fatal"} =>
        \A c \in CommaTexts :
            (expString_ = c.text /\ Len(c.nodes) >= 2) =>
                IF ~c.call
                THEN /\ pc = "done"
                     /\ parsedSymbols_ = <<[type |-> "LIST", symbols |-> c.nodes]>>
                ELSE IF Len(c.nodes) = 2
                THEN /\ pc = "done"
                     /\ parsedSymbols_
                            = <<BinaryNode("FLOATING_POINT_NODE", "POW", c.nodes[1], c.nodes[2])>>
                ELSE pc = "fatal"

\* `pow(, a, 1 ,)` compiled
C19_OuterCommasReached ==
    /\ expString_ = <<"p", "o", "w", "(", ",", " ", "a", ",", " ", "1", " ", ",", ")">>
    /\ pc = "done"
    /\ parsedSymbols_[1].n1 = FieldNode("UNSIGNED_NODE", <<"a">>)
    /\ parsedSymbols_[1].n2 = ConstNode("UNSIGNED_NODE", 1)

----------------------------------------------------------------------------
(* The operands of ^                                                       *)

\* primaries: a literal, a field, function calls, and the same in parentheses
PowerOperands ==
    { [text |-> <<"2">>, node |-> ConstNode("UNSIGNED_NODE", 2)],
      [text |-> <<"x">>, node |-> FieldNode("FLOATING_POINT_NODE", <<"x">>)],
      [text |-> <<"(", "x", ")">>, node |-> FieldNode("FLOATING_POINT_NODE", <<"x">>)],
      [text |-> <<"s", "q", "r", "t", "(", "x", ")">>,
       node |-> UnaryNode("FLOATING_POINT_NODE", "SQRT",
                          FieldNode("FLOATING_POINT_NODE", <<"x">>))],
      [text |-> <<"(", "s", "q", "r", "t", "(", "x", ")", ")">>,
       node |-> UnaryNode("FLOATING_POINT_NODE", "SQRT",
                          FieldNode("FLOATING_POINT_NODE", <<"x">>))],
      [text |-> <<"r", "a", "n", "d", "(", ")">>, node |-> RandNode],
      [text |-> <<"p", "o", "w", "(", "x", ",", " ", "2", ")">>,
       node |-> BinaryNode("FLOATING_POINT_NODE", "POW",
                           FieldNode("FLOATING_POINT_NODE", <<"x">>),
                           ConstNode("UNSIGNED_NODE", 2))] }

PowerTexts ==
    {lhs.text \o gap \o <<"^">> \o gap \o rhs.text :
         lhs \in PowerOperands, rhs \in PowerOperands, gap \in Gaps}

PowerInit == InitWith(PowerTexts, {<<>>})

PowerSpec == PowerInit /\ [][Next]_vars

\* C20: either operand of ^ may be any primary, a function call included:
\* `sqrt(x) ^ 2` and `2 ^ sqrt(x)` compile, the latter to the power node with
\* left operand 2 and right operand sqrt(x).
C20_PowerOfAnyPrimary ==
    \A lhs \in PowerOperands, rhs \in PowerOperands, gap \in Gaps :
        expString_ = lhs.text \o gap \o <<"^">> \o gap \o rhs.text =>
            /\ pc # "fatal"
            /\ pc = "done" =>
                   parsedSymbols_
                       = <<BinaryNode("FLOATING_POINT_NODE", "POWER", lhs.node, rhs.node)>>

----------------------------------------------------------------------------
(* The contents of a pair of parentheses                                   *)

MaxPieces == 4

\* operands, an operator, function keywords, an empty pair and a pair whose
\* contents are two nodes
Pieces ==
    {<<"a">>, <<"b">>, <<"+">>, <<"s", "i", "n">>, <<"r", "a", "n", "d">>, <<"(", ")">>,
     <<"(", "a", ")">>, <<"(", "(", "a", ")", "(", "b", ")", ")">>}

\* the pieces with one blank between two of them
RECURSIVE JoinPieces(_)
JoinPieces(ps) ==
    IF Len(ps) = 1 THEN ps[1]
    ELSE JoinPieces(SubSeq(ps, 1, Len(ps) - 1)) \o <<" ">> \o ps[Len(ps)]

PairTexts == {JoinPieces(ps) : ps \in UNION {[1 .. k -> Pieces] : k \in 1 .. MaxPieces}}

PairInit == InitWith(PairTexts, {<<>>})

PairSpec == PairInit /\ [][Next]_vars

\* an empty pair that is not the argument list of rand
EmptyPairIn(s) ==
    \E i \in 0 .. Len(s) - 2 :
        /\ At(s, i) = "(" /\ At(s, i + 1) = ")"
        /\ ~(i >= 5 /\ Substr(s, i - 5, 5) = <<"r", "a", "n", "d", " ">>)

\* a pair whose contents reduce to the two nodes a and b
TwoNodePairIn(s) == Contains(s, <<"(", "(", "a", ")", "(", "b", ")", ")">>)

\* C21: apart from the empty argument list of rand, a text with an empty
\* pair `()` or with a pair whose contents leave two symbols (`a + () b`,
\* `() a`, `((a)(b))`) never compiles.
C21_PairReducesToOneSymbol ==
    (EmptyPairIn(expString_) \/ TwoNodePairIn(expString_)) => pc # "done"

----------------------------------------------------------------------------
(* Ownership: what allocatedSymbols_ holds after a compile                 *)

OwnedTexts ==
    {c.text : c \in FunctionCalls} \cup {c.text : c \in CommaTexts}
        \cup {c.text : c \in Calls} \cup HeadExamples

OwnedInit == InitWith(OwnedTexts, {<<>>})

OwnedSpec == OwnedInit /\ [][Next]_vars

\* The number of symbols the passes allocated to build s out of tokens: one
\* for each node built by GetUnarySymbol, GetBinarySymbol or GetVoidSymbol
\* and one for each ListSymbol (the argument list of a binary function
\* included, and the list of values of `in` when it has two values or more)
RECURSIVE Built(_)
RECURSIVE BuiltOfAll(_)
BuiltOfAll(symbols) ==
    IF symbols = <<>> THEN 0
    ELSE Built(symbols[1]) + BuiltOfAll(SubSeq(symbols, 2, Len(symbols)))
Built(s) ==
    IF s.type = "LIST" THEN 1 + BuiltOfAll(s.symbols)
    ELSE IF ~IsNode(s) THEN 0
    ELSE IF s.node = "Unary" THEN 1 + Built(s.n1)
    ELSE IF s.node = "Binary"
    THEN 1 + Built(s.n1) + Built(s.n2)
           + (IF s.op \in {"FMOD", "POW", "ATAN2"} THEN 1 ELSE 0)
    ELSE IF s.node = "In"
    THEN 2 + Built(s.n1) + (IF Len(s.data) >= 2 THEN 1 ELSE 0)
    ELSE IF s.node = "Rand" THEN 1
    ELSE 0

\* C22: the tokens are pushed to allocatedSymbols_ as they are pushed to
\* parsedSymbols_; a successful parse keeps them all, erased ones included,
\* and adds one entry for each node and each ListSymbol it built, none for a
\* ListSymbol put back after an append.
C22_AllocatedOnce ==
    [][/\ (pc' \in {"ParseSymbols", "Parse"} => allocatedSymbols_' = parsedSymbols_')
       /\ (pc = "Parse" /\ pc' = "done" =>
              /\ SubSeq(allocatedSymbols_', 1, Len(allocatedSymbols_)) = allocatedSymbols_
              /\ Len(allocatedSymbols_') = Len(allocatedSymbols_) + Built(parsedSymbols_'[1]))]_vars

\* a list grown by an append is the head, and tokens were erased
C22_AppendedListReached ==
    /\ pc = "done"
    /\ parsedSymbols_[1].type = "LIST"
    /\ Len(parsedSymbols_[1].symbols) = 3
    /\ Len(allocatedSymbols_) > 4

----------------------------------------------------------------------------
(* Termination of a compile                                                *)

\* one round of the loop of ParseSymbols, as far as pc and pos show it: the
\* step GetNextSymbol takes, which is enabled whenever pc = "ParseSymbols"
SymbolRead ==
    /\ pc = "ParseSymbols"
    /\ pc' \in {"ParseSymbols", "Parse", "fatal"}
    /\ pos' \in -1 .. Len(expString_)

\* the call of RecursiveParseExpression in Init returns or raises: the step
\* InitParse takes, which is enabled whenever pc = "Parse"
ParseReturns == pc = "Parse" /\ pc' \in {"done", "fatal", "trap"}

\* The constructor runs ParseSymbols and then the parse without waiting for
\* anything: the loop of ParseSymbols goes on while it can, and the parse,
\* once begun, comes to its end
TerminationSpec ==
    Init /\ [][Next]_vars /\ WF_<<pc, pos>>(SymbolRead) /\ WF_pc(ParseReturns)

\* C23: the compile of every text comes to an end, either with the reduced
\* list in parsedSymbols_ or with XCDFFatal.
C23_EndsReducedOrFatal == <>(pc \in {"done", "fatal"})

----------------------------------------------------------------------------
(* Histogram1D (src/include/xcdf/utility/Histogram.h)                      *)
(*                                                                         *)
(* A double is the exact ratio <<num, den>> of the number it holds, with   *)
(* den > 0 and in lowest terms.  The format is binary floating point with  *)
(* Precision significant bits in place of the 53 of the IEEE double, every *)
(* operation rounding its exact result to the nearest such number, ties to *)
(* even; the exponent is not bounded, so there is no infinity and no NaN.  *)

Precision == 4
MaxBins == 2
MaxWeight == 3

RECURSIVE Gcd(_, _)
Gcd(a, b) == IF b = 0 THEN a ELSE Gcd(b, a % b)

RECURSIVE Pow2(_)
Pow2(k) == IF k = 0 THEN 1 ELSE 2 * Pow2(k - 1)

\* the ratio n / d, d > 0, in lowest terms
Ratio(n, d) ==
    IF n = 0 THEN <<0, 1>>
    ELSE IF n > 0 THEN <<n \div Gcd(n, d), d \div Gcd(n, d)>>
    ELSE <<0 - ((0 - n) \div Gcd(0 - n, d)), d \div Gcd(0 - n, d)>>

\* the integer nearest to n / d for n >= 0, the even one of two
NearestEven(n, d) ==
    IF 2 * (n % d) > d \/ (2 * (n % d) = d /\ (n \div d) % 2 = 1)
    THEN (n \div d) + 1
    ELSE n \div d

\* n / d > 0 rounded to Precision bits: n / d is scaled by up / down into
\* [2^(Precision - 1), 2^Precision), rounded to an integer and scaled back
RECURSIVE RoundPositive(_, _, _, _)
RoundPositive(n, d, up, down) ==
    IF n < Pow2(Precision - 1) * d THEN RoundPositive(2 * n, d, 2 * up, down)
    ELSE IF n >= Pow2(Precision) * d THEN RoundPositive(n, 2 * d, up, 2 * down)
    ELSE Ratio(NearestEven(n, d) * down, up)

\* the double nearest to the ratio x
Double(x) ==
    IF x[1] = 0 THEN <<0, 1>>
    ELSE IF x[1] > 0 THEN RoundPositive(x[1], x[2], 1, 1)
    ELSE <<0 - RoundPositive(0 - x[1], x[2], 1, 1)[1], RoundPositive(0 - x[1], x[2], 1, 1)[2]>>

\* +, -, *, / and < of doubles, floor() and numeric_limits<double>::epsilon()
Add(x, y) == Double(<<x[1] * y[2] + y[1] * x[2], x[2] * y[2]>>)
Subtract(x, y) == Double(<<x[1] * y[2] - y[1] * x[2], x[2] * y[2]>>)
Multiply(x, y) == Double(<<x[1] * y[1], x[2] * y[2]>>)
Reciprocal(y) == Double(<<y[2], y[1]>>)
Less(x, y) == x[1] * y[2] < y[1] * x[2]
floor(x) == x[1] \div x[2]
epsilon == <<1, Pow2(Precision - 1)>>

\* GetNBins()
GetNBins == Len(data_)

\* the doubles the histogram is built over and filled with: edges, values
\* inside a bin, and the doubles next below 1 and 2
Edges == {<<0, 1>>, <<1, 1>>, <<2, 1>>, <<3, 1>>}
Values ==
    {<<0 - 1, 1>>, <<0, 1>>, <<1, 2>>, <<15, 16>>, <<1, 1>>, <<3, 2>>, <<15, 8>>, <<2, 1>>,
     <<5, 2>>, <<3, 1>>, <<4, 1>>}
Weights == {<<1, 1>>, <<2, 1>>}

\* no Expression is being compiled
NoExpression ==
    /\ expString_ = <<>> /\ f_ = Schema /\ hexTail = <<>> /\ pos = 0
    /\ parsedSymbols_ = <<>> /\ allocatedSymbols_ = <<>> /\ pc = "none" /\ row = Row0

\* Histogram1D(nbins, min, max) for the arguments it does not reject
HistogramInit ==
    /\ NoExpression
    /\ \E nbins \in 1 .. MaxBins :
           /\ data_ = [i \in 1 .. nbins |-> <<0, 1>>]
           /\ dataW2_ = [i \in 1 .. nbins |-> <<0, 1>>]
    /\ underflow_ = <<0, 1>> /\ underflowW2_ = <<0, 1>>
    /\ overflow_ = <<0, 1>> /\ overflowW2_ = <<0, 1>>
    /\ min_ \in Edges
    /\ max_ \in Edges
    /\ Less(min_, max_)
    /\ rinv_ = Reciprocal(Subtract(max_, min_))
    /\ value = <<0, 1>> /\ weight = <<0, 1>>

\* underflow_ + overflow_ + the bins, exactly
RECURSIVE SumOf(_)
SumOf(xs) ==
    IF xs = <<>> THEN <<0, 1>>
    ELSE Ratio(xs[1][1] * SumOf(Tail(xs))[2] + SumOf(Tail(xs))[1] * xs[1][2],
               xs[1][2] * SumOf(Tail(xs))[2])
Total == SumOf(<<underflow_, overflow_>> \o data_)

\* ldiff in Fill(v, ...) after the multiplication by 1 + epsilon
Ldiff(v) ==
    Multiply(Multiply(Multiply(Subtract(v, min_), rinv_), <<GetNBins, 1>>),
             Add(<<1, 1>>, epsilon))

\* the three branches of Fill
FillBranch(v, w, ldiff) ==
    IF Less(ldiff, <<0, 1>>)
    THEN /\ underflow_' = Add(underflow_, w)
         /\ underflowW2_' = Add(underflowW2_, Multiply(w, w))
         /\ UNCHANGED <<data_, dataW2_, overflow_, overflowW2_>>
    ELSE IF ~Less(ldiff, <<GetNBins, 1>>)
    THEN /\ overflow_' = Add(overflow_, w)
         /\ overflowW2_' = Add(overflowW2_, Multiply(w, w))
         /\ UNCHANGED <<data_, dataW2_, underflow_, underflowW2_>>
    ELSE /\ data_' = [data_ EXCEPT ![floor(ldiff) + 1] = Add(@, w)]
         /\ dataW2_' = [dataW2_ EXCEPT ![floor(ldiff) + 1] = Add(@, Multiply(w, w))]
         /\ UNCHANGED <<underflow_, underflowW2_, overflow_, overflowW2_>>

\* Histogram1D::Fill(value, weight)
Fill ==
    \E v \in Values, w \in Weights :
        /\ pc = "none"
        /\ ~Less(<<MaxWeight, 1>>, SumOf(<<Total, w>>))
        /\ FillBranch(v, w, Ldiff(v))
        /\ value' = v
        /\ weight' = w
        /\ UNCHANGED <<min_, max_, rinv_>>
        /\ UNCHANGED expression

HistogramSpec == HistogramInit /\ [][Fill]_vars

\* the accumulator the weight belongs to by the value alone: -1 for the
\* underflow, GetNBins for the overflow, else the bin
\* floor((value - min) / (max - min) * nbins), in exact arithmetic
AccumulatorOf(v) ==
    IF Less(v, min_) THEN 0 - 1
    ELSE IF ~Less(v, max_) THEN GetNBins
    ELSE ((v[1] * min_[2] - min_[1] * v[2]) * max_[2] * GetNBins)
             \div (v[2] * (max_[1] * min_[2] - min_[1] * max_[2]))

\* C24: a Fill adds the weight to one accumulator, the underflow for a value
\* below the minimum, the overflow for a value at or above the maximum, else
\* the bin floor((value - min) / (max - min) * nbins), a bin of the array; the
\* other accumulators stay, and the total grows by the weight.
C24_FillOneAccumulator ==
    [][/\ AccumulatorOf(value') \in -1 .. GetNBins
       /\ underflow_' = (IF AccumulatorOf(value') = 0 - 1
                         THEN SumOf(<<underflow_, weight'>>) ELSE underflow_)
       /\ overflow_' = (IF AccumulatorOf(value') = GetNBins
                        THEN SumOf(<<overflow_, weight'>>) ELSE overflow_)
       /\ data_' = [i \in 1 .. GetNBins |->
                       IF AccumulatorOf(value') = i - 1
                       THEN SumOf(<<data_[i], weight'>>) ELSE data_[i]]
       /\ Total' = SumOf(<<Total, weight'>>)]_vars

=============================================================================
